---- MODULE Spec2Model ----
(***************************************************************************)
(* Model of the per-pipeline streaming engine of src/pipeline.py           *)
(* (class StreamPipeline): the manager thread (_listening_loop and         *)
(* _cleanup_active_session), the generator threads (_generator_loop), the  *)
(* consumer threads (_consumer_loop), the frame queue, the dirty-rect      *)
(* detector, the chunker and the adaptive threshold controller.            *)
(*                                                                         *)
(* Images are sequences of rows of <<r, g, b>> pixels; NoImage stands for  *)
(* Python's None.  A thread occupies a slot from its start to its end; the *)
(* manager refers to the threads of the current session by their slots.    *)
(* Times are in milliseconds.                                              *)
(***************************************************************************)
EXTENDS Integers, Sequences, FiniteSets, TLC

----------------------------------------------------------------------------
(* Bounds of the model *)

\* number of generator threads, and of consumer threads, that can be alive
\* at once: the one of the current session and those a timed-out join left
\* behind
MaxThreads == 2

----------------------------------------------------------------------------
(* Configuration (self.config) *)

Unset == 0

\* config['target_width'], config['target_height']
TargetWidth == 2
TargetHeight == 2
\* config.get('max_chunk_data_size', 8192)
MaxChunkData == 4
\* config.get('frames_queue_max_size', 5)
QMax == 2
\* config.get('generator_low_water_mark', 2)
LowWaterMark == 2
\* config.get('target_fps', 15.0)
TargetFps == 10
\* config.get('fps_hysteresis_factor', 0.1), in percent
HysteresisPct == 10
\* config.get('fps_history_size', 10)
HistorySize == 2
\* config.get('threshold_adjustment_step_up', 10)
StepUp == 10
\* config.get('threshold_adjustment_step_down', 5)
StepDown == 5

\* The keys of the pipeline's configuration that vary: the target size, the
\* largest chunk payload, and the threshold keys, each of which is either
\* absent (Unset) or a number.  Two configurations: both threshold keys
\* given with a CPU monitor as the source, and only the maximum given with
\* the screen as the source.
Configs ==
    { [target_width |-> TargetWidth, target_height |-> TargetHeight,
       max_chunk_data_size |-> MaxChunkData,
       image_source_mode |-> "CPU_MONITOR",
       wb_scale |-> <<100, 100, 100>>,
       min_dirty_rect_threshold |-> 5, max_dirty_rect_threshold |-> 15],
      [target_width |-> TargetWidth, target_height |-> TargetHeight,
       max_chunk_data_size |-> MaxChunkData,
       image_source_mode |-> "SCREEN_CAPTURE",
       wb_scale |-> <<100, 100, 100>>,
       min_dirty_rect_threshold |-> Unset, max_dirty_rect_threshold |-> 8] }

VARIABLES
    config,                          \* self.config
    lpc,                             \* position of the manager thread
    lfinal,                          \* cleanup is the one after the loop
    server_socket,                   \* "none", "listening", "closed"
    stop_called,                     \* stop_pipeline_manager was called
    client_connection,               \* "none", or the socket: "open", "gone"
    global_server_stop_event,
    pipeline_internal_stop_event,
    frames_queue,
    generator_thread,                \* self._generator_thread
    consumer_thread,                 \* self._consumer_thread
    generator_instance,              \* self._generator_instance
    gpc,                             \* per generator thread: position
    cpc,                             \* per consumer thread: position
    cframe,                          \* consumer local: img_resized
    crects,                          \* consumer local: dirty_rects_list
    cchunks,                         \* consumer local: chunks still to send
    prev_processed_image,
    current_dynamic_threshold,
    frame_processing_times_history,
    \* history variables, read by no action
    first_sent,                      \* first chunk sent to the last client
    send_error,                      \* a send to the last client failed
    prev_at_get,                     \* per consumer: prev when frame taken
    wire_pixels,                     \* per consumer: pixels sent this frame
    wire_packets,                    \* per consumer: packets sent this frame
    stop_calls,                      \* stop() calls on the newest instance
    frames_generated_total,          \* metrics['frames_generated_total']
    \* CpuMonitorGenerator
    cpu_usage_history,               \* self._cpu_usage_history, per core
    cpu_lock,                        \* self._lock: "free" or its holder
    dpc,                             \* position of the data thread
    current_usage,                   \* data thread local: the sample
    di,                              \* data thread local: core index
    fpc,                             \* position of a draw_frame call
    current_history_copy             \* draw_frame local: lists copied


\* config.get('min_dirty_rect_threshold', 10): the value the threshold is
\* initialised with in __init__ and at the start of _consumer_loop
InitialThreshold(cfg) ==
    IF cfg.min_dirty_rect_threshold = Unset THEN 10
    ELSE cfg.min_dirty_rect_threshold

\* min_thresh = config.get('min_dirty_rect_threshold', 5)
MinThresh(cfg) ==
    IF cfg.min_dirty_rect_threshold = Unset THEN 5
    ELSE cfg.min_dirty_rect_threshold

\* max_thresh = config.get('max_dirty_rect_threshold', 220)
MaxThresh(cfg) ==
    IF cfg.max_dirty_rect_threshold = Unset THEN 220
    ELSE cfg.max_dirty_rect_threshold

----------------------------------------------------------------------------
(* Images *)

NoImage == <<>>

Black == <<0, 0, 0>>

ImgWidth(img) == Len(img[1])
ImgHeight(img) == Len(img)

\* pixel at column x, row y (0-based as in the source)
PixelAt(img, x, y) == img[y + 1][x + 1]

SolidImage(w, h, p) == [y \in 1..h |-> [x \in 1..w |-> p]]

WithPixel(img, x, y, p) ==
    [img EXCEPT ![y + 1] = [img[y + 1] EXCEPT ![x + 1] = p]]

\* The frames an image source delivers: a black frame smaller than the
\* target (a capture of a small region), and a frame of the target size
\* that differs from black by 9 in one pixel (more than a threshold of 5 or
\* 8, not more than one of 10 or 15).
ImgA == SolidImage(1, 1, Black)
ImgB == WithPixel(SolidImage(TargetWidth, TargetHeight, Black),
                  1, 1, <<4, 3, 2>>)
SourceImages == {ImgA, ImgB}

\* raw_frame.resize((target_width, target_height), LANCZOS).  PIL returns
\* a copy of an image that already has the requested size; resampling a
\* frame of a single colour gives that colour at every pixel.  (The frames
\* of other sizes modelled are of a single colour.)
Resize(img) ==
    IF /\ ImgWidth(img) = config.target_width
       /\ ImgHeight(img) = config.target_height
    THEN img
    ELSE SolidImage(config.target_width, config.target_height,
                    PixelAt(img, 0, 0))

----------------------------------------------------------------------------
(* Dirty-rect detector: _find_dirty_rects *)

Abs(n) == IF n < 0 THEN -n ELSE n

\* np.sum(np.abs(arr_curr - arr_prev), axis=2) for one pixel, on int16
AbsDiff(p, q) == Abs(p[1] - q[1]) + Abs(p[2] - q[2]) + Abs(p[3] - q[3])

Min(S) == CHOOSE m \in S : \A n \in S : m <= n
Max(S) == CHOOSE m \in S : \A n \in S : m >= n

\* a mask of the pixels whose difference reaches the threshold
ChangedPixels_AtLeast(prev, curr, threshold) ==
    { xy \in (0..(ImgWidth(curr) - 1)) \X (0..(ImgHeight(curr) - 1)) :
        AbsDiff(PixelAt(curr, xy[1], xy[2]),
                PixelAt(prev, xy[1], xy[2])) >= threshold }

\* np.where(abs_diff_arr > threshold): the (x, y) of the changed pixels
ChangedPixels(prev, curr, threshold) ==
    { xy \in (0..(ImgWidth(curr) - 1)) \X (0..(ImgHeight(curr) - 1)) :
        AbsDiff(PixelAt(curr, xy[1], xy[2]),
                PixelAt(prev, xy[1], xy[2])) > threshold }

\* _find_dirty_rects without its first test: no previous image is taken to
\* be a black one
FindDirtyRects_NoFullFrame(img_prev, img_curr, threshold) ==
    LET prev == IF img_prev = NoImage
                THEN SolidImage(ImgWidth(img_curr), ImgHeight(img_curr), Black)
                ELSE img_prev
        changed == ChangedPixels(prev, img_curr, threshold)
        xs == {xy[1] : xy \in changed}
        ys == {xy[2] : xy \in changed}
    IN IF changed # {}
       THEN << <<Min(xs), Min(ys),
                 Max(xs) - Min(xs) + 1, Max(ys) - Min(ys) + 1>> >>
       ELSE << >>

\* a detector whose rect is one short in width and height
FindDirtyRects_NoPlusOne(img_prev, img_curr, threshold) ==
    IF img_prev = NoImage
       \/ ImgWidth(img_prev) # ImgWidth(img_curr)
       \/ ImgHeight(img_prev) # ImgHeight(img_curr)
    THEN << <<0, 0, ImgWidth(img_curr), ImgHeight(img_curr)>> >>
    ELSE LET changed == ChangedPixels(img_prev, img_curr, threshold)
             xs == {xy[1] : xy \in changed}
             ys == {xy[2] : xy \in changed}
         IN IF changed # {}
            THEN << <<Min(xs), Min(ys),
                      Max(xs) - Min(xs), Max(ys) - Min(ys)>> >>
            ELSE << >>

\* a detector that sends the whole frame when nothing changed
FindDirtyRects_FullWhenUnchanged(img_prev, img_curr, threshold) ==
    IF img_prev = NoImage
       \/ ImgWidth(img_prev) # ImgWidth(img_curr)
       \/ ImgHeight(img_prev) # ImgHeight(img_curr)
    THEN << <<0, 0, ImgWidth(img_curr), ImgHeight(img_curr)>> >>
    ELSE LET changed == ChangedPixels(img_prev, img_curr, threshold)
             xs == {xy[1] : xy \in changed}
             ys == {xy[2] : xy \in changed}
         IN IF changed # {}
            THEN << <<Min(xs), Min(ys),
                      Max(xs) - Min(xs) + 1, Max(ys) - Min(ys) + 1>> >>
            ELSE << <<0, 0, ImgWidth(img_curr), ImgHeight(img_curr)>> >>

\* a detector whose full rect has the size of the previous image
FindDirtyRects_PrevSize(img_prev, img_curr, threshold) ==
    IF img_prev = NoImage
    THEN << <<0, 0, ImgWidth(img_curr), ImgHeight(img_curr)>> >>
    ELSE IF \/ ImgWidth(img_prev) # ImgWidth(img_curr)
            \/ ImgHeight(img_prev) # ImgHeight(img_curr)
    THEN << <<0, 0, ImgWidth(img_prev), ImgHeight(img_prev)>> >>
    ELSE LET changed == ChangedPixels(img_prev, img_curr, threshold)
             xs == {xy[1] : xy \in changed}
             ys == {xy[2] : xy \in changed}
         IN IF changed # {}
            THEN << <<Min(xs), Min(ys),
                      Max(xs) - Min(xs) + 1, Max(ys) - Min(ys) + 1>> >>
            ELSE << >>

\* The rects the generator yields, as the list the consumer makes of them;
\* a rect is <<x, y, w, h>>.
FindDirtyRects(img_prev, img_curr, threshold) ==
    IF img_prev = NoImage
       \/ ImgWidth(img_prev) # ImgWidth(img_curr)
       \/ ImgHeight(img_prev) # ImgHeight(img_curr)
    THEN << <<0, 0, ImgWidth(img_curr), ImgHeight(img_curr)>> >>
    ELSE LET changed == ChangedPixels(img_prev, img_curr, threshold)
             xs == {xy[1] : xy \in changed}
             ys == {xy[2] : xy \in changed}
         IN IF changed # {}
            THEN << <<Min(xs), Min(ys),
                      Max(xs) - Min(xs) + 1, Max(ys) - Min(ys) + 1>> >>
            ELSE << >>

----------------------------------------------------------------------------
(* Chunking of a dirty rect: the body of the per-rect loop of             *)
(* _consumer_loop, as the sequence of chunks <<x, y, w, h>> it sends      *)

RECURSIVE Bands_BottomUp(_, _, _, _, _, _)
\* the bands of a rect, the lowest one first
Bands_BottomUp(x, y, w, h, chunk_h, current_y_offset) ==
    IF current_y_offset >= h THEN << >>
    ELSE LET actual_chunk_h ==
                 IF chunk_h < h - current_y_offset THEN chunk_h
                 ELSE h - current_y_offset
         IN Bands_BottomUp(x, y, w, h, chunk_h, current_y_offset + chunk_h)
            \o << <<x, y + current_y_offset, w, actual_chunk_h>> >>

RECURSIVE Bands(_, _, _, _, _, _)
\* for current_y_offset in range(0, h, chunk_h): one chunk per band
Bands(x, y, w, h, chunk_h, current_y_offset) ==
    IF current_y_offset >= h THEN << >>
    ELSE LET actual_chunk_h ==
                 IF chunk_h < h - current_y_offset THEN chunk_h
                 ELSE h - current_y_offset
         IN << <<x, y + current_y_offset, w, actual_chunk_h>> >>
            \o Bands(x, y, w, h, chunk_h, current_y_offset + chunk_h)

\* a chunker that sends every rect row by row, whatever its size
RectChunks_RowByRow(rect) ==
    IF rect[3] * rect[4] = 0 THEN << >>
    ELSE Bands(rect[1], rect[2], rect[3], rect[4], 1, 0)

\* the chunk loop left after its first band
RectChunks_FirstBand(rect) ==
    LET w == rect[3]
        h == rect[4]
    IN IF w * h * 2 > config.max_chunk_data_size
       THEN << <<rect[1], rect[2], w, 1>> >>
       ELSE IF w * h = 0 THEN << >> ELSE << rect >>

\* the chunks sent for one dirty rect: the rect itself when it fits in
\* max_chunk_data_size, otherwise horizontal bands of chunk_h rows
RectChunks(rect) ==
    LET x == rect[1]
        y == rect[2]
        w == rect[3]
        h == rect[4]
        bytes_per_row == w * 2
    IN IF w * h * 2 > config.max_chunk_data_size
       THEN IF bytes_per_row = 0 THEN << >>
            ELSE LET q == config.max_chunk_data_size \div bytes_per_row
                     chunk_h == IF q > 1 THEN q ELSE 1
                 IN Bands(x, y, w, h, chunk_h, 0)
       ELSE IF w * h = 0 THEN << >> ELSE << rect >>

\* a chunk list that is never empty: the full frame when no rect is dirty
FrameChunks_AlwaysSend(rects) ==
    LET r == IF rects = << >>
             THEN <<0, 0, config.target_width, config.target_height>>
             ELSE Head(rects)
        cs == RectChunks(r)
    IN [i \in 1..Len(cs) |-> [rect |-> r, chunk |-> cs[i]]]

RECURSIVE FrameChunks(_)
\* the chunks of all dirty rects of a frame, each paired with its rect
FrameChunks(rects) ==
    IF rects = << >> THEN << >>
    ELSE LET cs == RectChunks(Head(rects))
         IN [i \in 1..Len(cs) |-> [rect |-> Head(rects), chunk |-> cs[i]]]
            \o FrameChunks(Tail(rects))

\* img.crop((x, y, x + w, y + h)) for a box inside the image
Crop(img, x, y, w, h) ==
    [row \in 1..h |-> [col \in 1..w |-> PixelAt(img, x + col - 1,
                                                 y + row - 1)]]

----------------------------------------------------------------------------
(* Colour correction, dithering and RGB565 *)

\* _apply_gamma_and_white_balance for gamma 1.0 (the default) and a
\* white-balance factor given in percent: a channel value c becomes
\* float32(c / 255.0), is raised to the power 1.0, multiplied by the factor
\* and by 255.0 in float64, clipped to [0, 255], and astype(uint8)
\* truncates.  The binary expansion of c / 255 repeats the eight bits of c,
\* so its 25th significant bit is 1 and the float32 quotient is rounded up,
\* by a relative amount of at least 2^-33 and at most 2^-24 (c = 0 and
\* c = 255 are exact); the float64 products are off by at most 2^-51
\* relative.  The value truncated is therefore c * scale / 100 or a little
\* above it, by less than 1 / 100: the result is the floor of the exact
\* product.
ApplyGammaAndWhiteBalance(c, scale) ==
    IF (c * scale) \div 100 > 255 THEN 255 ELSE (c * scale) \div 100

\* The float32 working buffer of the dithering holds multiples of
\* 1 / DitherScale.  This is exact for an image of at most 2 x 2 pixels
\* (an error passes through at most three divisions by 16) and for an image
\* in which no pixel has a quantisation error.
DitherScale == 4096

\* Python's round(n / d) for d > 0: to the nearest integer, a tie to the
\* even one
RoundHalfEven(n, d) ==
    LET q == n \div d
        r == n - q * d
    IN IF 2 * r > d \/ (2 * r = d /\ q % 2 = 1) THEN q + 1 ELSE q

\* _quantize_and_get_error_numba for one channel: new = round(v / step) *
\* step clamped to [0, 255], error = v - new (step 8 for r and b, 4 for g)
QuantizeAndGetError(v, step) ==
    LET unit == step * DitherScale
        q == RoundHalfEven(v, unit) * unit
        new == IF q < 0 THEN 0
               ELSE IF q > 255 * DitherScale THEN 255 * DitherScale ELSE q
    IN [new |-> new, error |-> v - new]

\* pixels[y, x] += error * num / 16.0 when (x, y) is inside the buffer
Diffuse(pixels, width, height, x, y, error, num) ==
    IF x >= 0 /\ x < width /\ y < height
    THEN [pixels EXCEPT ![y + 1][x + 1] = @ + (error * num) \div 16]
    ELSE pixels

RECURSIVE ApplyDitheringNumba(_, _, _, _, _)
\* _apply_dithering_numba on one channel of the buffer, from pixel k on in
\* row-major order: the pixel is quantised and its error goes to the right
\* (7), down-left (3), down (5) and down-right (1) neighbours
ApplyDitheringNumba(pixels, width, height, step, k) ==
    IF k >= width * height THEN pixels
    ELSE LET y == k \div width
             x == k % width
             qe == QuantizeAndGetError(pixels[y + 1][x + 1], step)
             p0 == [pixels EXCEPT ![y + 1][x + 1] = qe.new]
             p1 == Diffuse(p0, width, height, x + 1, y, qe.error, 7)
             p2 == Diffuse(p1, width, height, x - 1, y + 1, qe.error, 3)
             p3 == Diffuse(p2, width, height, x, y + 1, qe.error, 5)
             p4 == Diffuse(p3, width, height, x + 1, y + 1, qe.error, 1)
         IN ApplyDitheringNumba(p4, width, height, step, k + 1)

\* a packing that takes the red bits from b and the blue bits from r
Rgb565Val_SwapRB(r, g, b) ==
    (b \div 8) * 2048 + (g \div 4) * 32 + (r \div 8)

\* ((r >> 3) << 11) | ((g >> 2) << 5) | (b >> 3) on uint8 channels
Rgb565Val(r, g, b) ==
    (r \div 8) * 2048 + (g \div 4) * 32 + (b \div 8)

\* the uint16 values of the dithered image, row by row
DitheredRgb565(img) ==
    LET width == ImgWidth(img)
        height == ImgHeight(img)
        channel(i) ==
            [y \in 1..height |-> [x \in 1..width |->
                ApplyGammaAndWhiteBalance(img[y][x][i], config.wb_scale[i])
                    * DitherScale]]
        r == ApplyDitheringNumba(channel(1), width, height, 8, 0)
        g == ApplyDitheringNumba(channel(2), width, height, 4, 0)
        b == ApplyDitheringNumba(channel(3), width, height, 8, 0)
    IN [p \in 1..(width * height) |->
           LET y == (p - 1) \div width + 1
               x == ((p - 1) % width) + 1
           IN Rgb565Val(r[y][x] \div DitherScale, g[y][x] \div DitherScale,
                        b[y][x] \div DitherScale)]

\* a conversion that writes only the low byte of each pixel
ApplyDitheringToRgb565Bytes_OneByte(img) ==
    IF img = << >> THEN << >>
    ELSE LET vals == DitheredRgb565(img)
         IN [i \in 1..Len(vals) |-> vals[i] % 256]

\* a conversion that writes each pixel low byte first
ApplyDitheringToRgb565Bytes_LittleEndian(img) ==
    IF img = << >> THEN << >>
    ELSE LET vals == DitheredRgb565(img)
         IN [i \in 1..(2 * Len(vals)) |->
                IF i % 2 = 1 THEN vals[(i + 1) \div 2] % 256
                ELSE vals[(i + 1) \div 2] \div 256]

\* _apply_dithering_to_rgb565_bytes(img): rgb565_val.astype('>H').tobytes(),
\* two bytes for each pixel, the high byte first
ApplyDitheringToRgb565Bytes(img) ==
    IF img = << >> THEN << >>
    ELSE LET vals == DitheredRgb565(img)
         IN [i \in 1..(2 * Len(vals)) |->
                IF i % 2 = 1 THEN vals[(i + 1) \div 2] \div 256
                ELSE vals[(i + 1) \div 2] % 256]

\* the big-endian bytes of an unsigned short and of an unsigned int
PackH(n) == << (n \div 256) % 256, n % 256 >>
PackI(n) == << (n \div 16777216) % 256, (n \div 65536) % 256,
               (n \div 256) % 256, n % 256 >>

\* a packet whose header leaves out the data length
PackUpdatePacket_ShortHeader(x, y, w, h, data) ==
    LET header == PackH(x) \o PackH(y) \o PackH(w) \o PackH(h)
    IN [x |-> x, y |-> y, w |-> w, h |-> h, data_len |-> Len(data),
        bytes |-> header \o data, size |-> Len(header \o data)]

\* _pack_update_packet(x, y, w, h, data): header = struct.pack('!HHHH I',
\* x, y, w, h, len(data)), packet = header + data.  The record keeps the
\* arguments beside the bytes of the packet and their number.
PackUpdatePacket(x, y, w, h, data) ==
    LET data_len == Len(data)
        header == PackH(x) \o PackH(y) \o PackH(w) \o PackH(h)
                  \o PackI(data_len)
    IN [x |-> x, y |-> y, w |-> w, h |-> h, data_len |-> data_len,
        bytes |-> header \o data, size |-> Len(header \o data)]

\* the packet the consumer builds for one chunk of the resized frame
ChunkPacket(img_resized, chunk) ==
    PackUpdatePacket(chunk[1], chunk[2], chunk[3], chunk[4],
                     ApplyDitheringToRgb565Bytes(
                         Crop(img_resized, chunk[1], chunk[2],
                              chunk[3], chunk[4])))

\* the pixels (x, y) a rect or chunk covers
RectPixels(r) ==
    (r[1]..(r[1] + r[3] - 1)) \X (r[2]..(r[2] + r[4] - 1))

FullRect == <<0, 0, TargetWidth, TargetHeight>>

----------------------------------------------------------------------------
(* Adaptive threshold controller: the tail of a completed frame *)

\* per-frame processing times, in milliseconds: with a target of 10 fps and
\* a history of two, 50+50 is above the band, 50+150 inside, 150+150 below
FrameTimes == {50, 150}

RECURSIVE SumSeq(_)
SumSeq(s) == IF s = << >> THEN 0 ELSE Head(s) + SumSeq(Tail(s))

\* deque(maxlen=fps_history_size).append
HistoryAppend(history, t) ==
    IF HistorySize <= 0 THEN << >>
    ELSE IF Len(history) >= HistorySize
         THEN Tail(history) \o <<t>>
         ELSE history \o <<t>>

\* current_fps < target_fps - hysteresis, with current_fps = 1 / avg_time,
\* avg_time = sum / len (seconds), hysteresis = target_fps * factor;
\* written on integers: fps = 1000 * len / sum_ms
FpsBelowBand(history) ==
    LET total == SumSeq(history)
    IN IF total > 0
       THEN 100000 * Len(history) < TargetFps * (100 - HysteresisPct) * total
       ELSE 0 < TargetFps * (100 - HysteresisPct)

\* current_fps > target_fps + hysteresis
FpsAboveBand(history) ==
    LET total == SumSeq(history)
    IN IF total > 0
       THEN 100000 * Len(history) > TargetFps * (100 + HysteresisPct) * total
       ELSE 0 > TargetFps * (100 + HysteresisPct)

\* a controller whose step up is not limited by the maximum
AdaptThreshold_NoClamp(threshold, history, cfg) ==
    IF Len(history) >= HistorySize /\ HistorySize > 0
    THEN IF FpsBelowBand(history)
         THEN threshold + StepUp
         ELSE IF FpsAboveBand(history)
              THEN IF MinThresh(cfg) > threshold - StepDown
                   THEN MinThresh(cfg) ELSE threshold - StepDown
              ELSE threshold
    ELSE threshold

\* a controller that does not wait for the history to fill
AdaptThreshold_Eager(threshold, history, cfg) ==
    IF Len(history) >= 1
    THEN IF FpsBelowBand(history)
         THEN IF MaxThresh(cfg) < threshold + StepUp
              THEN MaxThresh(cfg) ELSE threshold + StepUp
         ELSE IF FpsAboveBand(history)
              THEN IF MinThresh(cfg) > threshold - StepDown
                   THEN MinThresh(cfg) ELSE threshold - StepDown
              ELSE threshold
    ELSE threshold

\* a controller that never raises the threshold and never lowers it
AdaptThreshold_Off(threshold, history, cfg) ==
    IF Len(history) >= HistorySize /\ HistorySize > 0
    THEN IF FpsBelowBand(history)
         THEN threshold
         ELSE IF FpsAboveBand(history)
              THEN threshold
              ELSE threshold
    ELSE threshold

\* the threshold after a completed frame, history already appended to
AdaptThreshold(threshold, history, cfg) ==
    IF Len(history) >= HistorySize /\ HistorySize > 0
    THEN IF FpsBelowBand(history)
         THEN IF MaxThresh(cfg) < threshold + StepUp
              THEN MaxThresh(cfg) ELSE threshold + StepUp
         ELSE IF FpsAboveBand(history)
              THEN IF MinThresh(cfg) > threshold - StepDown
                   THEN MinThresh(cfg) ELSE threshold - StepDown
              ELSE threshold
    ELSE threshold

----------------------------------------------------------------------------
(* State *)

Threads == 1..MaxThreads
None == 0

vars == << config, lpc, lfinal, server_socket, stop_called,
           client_connection, global_server_stop_event,
           pipeline_internal_stop_event, frames_queue, generator_thread,
           consumer_thread, gpc, cpc, cframe, crects, cchunks,
           prev_processed_image, current_dynamic_threshold,
           frame_processing_times_history,
           first_sent, send_error, prev_at_get, wire_pixels,
           wire_packets, generator_instance, stop_calls,
           frames_generated_total, cpu_usage_history, cpu_lock, dpc,
           current_usage, di, fpc, current_history_copy >>

lvars == << lpc, lfinal, server_socket, client_connection,
            generator_thread, consumer_thread >>
events == << stop_called, global_server_stop_event,
             pipeline_internal_stop_event >>
cstate == << prev_processed_image, current_dynamic_threshold,
             frame_processing_times_history >>
clocals == << cframe, crects, cchunks >>
\* the counters of the metrics registry that are modelled
metrics == << frames_generated_total >>
\* the state of a CpuMonitorGenerator
cpu == << cpu_usage_history, cpu_lock, dpc, current_usage, di, fpc,
         current_history_copy >>
\* the image source object and the calls of its stop()
source == << generator_instance, stop_calls >>
ghosts == << first_sent, send_error, prev_at_get, wire_pixels,
            wire_packets >>

\* the object _initialize_generator_instance creates for a source mode;
\* SCREEN_CAPTURE and BIOS have none
GeneratorClass(mode) ==
    CASE mode = "CPU_MONITOR" -> "CpuMonitorGenerator"
      [] mode = "PROMETHEUS_MONITOR" -> "PrometheusMonitorGenerator"
      [] mode = "WINDOW_CAPTURE" -> "WindowScreenshotter"
      [] OTHER -> "none"

\* the modes for which _initialize_generator_instance has a branch
SupportedModes ==
    {"CPU_MONITOR", "PROMETHEUS_MONITOR", "WINDOW_CAPTURE",
     "SCREEN_CAPTURE", "BIOS"}

\* hasattr(self._generator_instance, 'stop')
HasStop(instance) ==
    instance \in {"CpuMonitorGenerator", "PrometheusMonitorGenerator"}

\* the first statements of _initialize_generator_instance: an instance
\* still referenced is stopped; the value is the number of stop() calls
\* that instance has then received
StopPreviousInstance ==
    IF generator_instance # "none" /\ HasStop(generator_instance)
    THEN stop_calls + 1 ELSE stop_calls

\* the value at which the model stops counting generated frames
MaxGenerated == 4

\* psutil.cpu_count(logical=True)
NumCores == 2
\* history_length of the CPU monitor: the maxlen of each core's deque
HistoryLength == 2
\* number of samples the data thread takes
MaxTicks == 3

\* CpuMonitorGenerator.__init__: every core's history is filled with 0.0,
\* the lock is free and the data thread started; no frame is being drawn
CpuConstructed ==
    /\ cpu_usage_history =
           [c \in 1..NumCores |-> [k \in 1..HistoryLength |-> 0]]
    /\ cpu_lock = "free"
    /\ dpc = "loop"
    /\ current_usage = 0
    /\ di = 0
    /\ fpc = "idle"
    /\ current_history_copy = << >>

\* StreamPipeline.__init__
Constructed ==
    /\ lpc = "bind"
    /\ lfinal = FALSE
    /\ server_socket = "none"
    /\ stop_called = FALSE
    /\ client_connection = "none"
    /\ global_server_stop_event = FALSE
    /\ pipeline_internal_stop_event = FALSE
    /\ frames_queue = << >>
    /\ generator_thread = None
    /\ consumer_thread = None
    /\ generator_instance = "none"
    /\ stop_calls = 0
    /\ gpc = [t \in Threads |-> "none"]
    /\ cpc = [t \in Threads |-> "none"]
    /\ cframe = [t \in Threads |-> NoImage]
    /\ crects = [t \in Threads |-> << >>]
    /\ cchunks = [t \in Threads |-> << >>]
    /\ prev_processed_image = NoImage
    /\ current_dynamic_threshold = InitialThreshold(config)
    /\ frame_processing_times_history = << >>
    /\ first_sent = << >>
    /\ send_error = FALSE
    /\ prev_at_get = [t \in Threads |-> NoImage]
    /\ wire_pixels = [t \in Threads |-> {}]
    /\ wire_packets = [t \in Threads |-> << >>]
    /\ frames_generated_total = 0
    /\ CpuConstructed

Init ==
    /\ config \in Configs
    /\ Constructed

\* threading.Thread.is_alive
GeneratorAlive(t) == gpc[t] # "none"
ConsumerAlive(t) == cpc[t] # "none"

\* the slot a newly started thread takes
FreeSlot(pc) == Min({t \in Threads : pc[t] = "none"})

----------------------------------------------------------------------------
(* Manager thread: _listening_loop and _cleanup_active_session *)

\* socket(), bind(), listen() succeed
ListenerBind ==
    /\ lpc = "bind"
    /\ server_socket' = "listening"
    /\ lpc' = "loop"
    /\ UNCHANGED << config, cpu, metrics, source, lfinal, client_connection, generator_thread,
                    consumer_thread, events, frames_queue, gpc, cpc,
                    clocals, cstate, ghosts >>

\* a manager that returns from a failed bind() without closing the socket
ListenerBindFail_Open ==
    /\ lpc = "bind"
    /\ lpc' = "terminated"
    /\ UNCHANGED << config, cpu, metrics, source, lfinal, server_socket,
                    client_connection, generator_thread, consumer_thread,
                    events, frames_queue, gpc, cpc, clocals, cstate,
                    ghosts >>

\* bind() or listen() raises: the socket is closed and the manager returns
ListenerBindFail ==
    /\ lpc = "bind"
    /\ server_socket' = "closed"
    /\ lpc' = "terminated"
    /\ UNCHANGED << config, cpu, metrics, source, lfinal, client_connection, generator_thread,
                    consumer_thread, events, frames_queue, gpc, cpc,
                    clocals, cstate, ghosts >>

\* while not self.global_server_stop_event.is_set(): ...
\* and, once it is set, the first statement of the cleanup after the loop
ListenerLoop ==
    /\ lpc = "loop"
    /\ IF global_server_stop_event
       THEN /\ lpc' = "join_gen"
            /\ lfinal' = TRUE
            /\ pipeline_internal_stop_event' = TRUE
       ELSE /\ lpc' = "accept"
            /\ UNCHANGED << lfinal, pipeline_internal_stop_event >>
    /\ UNCHANGED << config, cpu, metrics, source, server_socket, client_connection,
                    generator_thread, consumer_thread, stop_called,
                    global_server_stop_event, frames_queue, gpc, cpc,
                    clocals, cstate, ghosts >>

\* accept() raises socket.timeout after 1 s: continue
ListenerAcceptTimeout ==
    /\ lpc = "accept"
    /\ server_socket = "listening"
    /\ lpc' = "loop"
    /\ UNCHANGED << config, cpu, metrics, source, lfinal, server_socket, client_connection,
                    generator_thread, consumer_thread, events,
                    frames_queue, gpc, cpc, clocals, cstate, ghosts >>

\* accept() raises OSError because the listening socket was closed: break
\* when the global stop is set, otherwise sleep and go round the loop
ListenerAcceptError ==
    /\ lpc = "accept"
    /\ server_socket = "closed"
    /\ IF global_server_stop_event
       THEN /\ lpc' = "join_gen"
            /\ lfinal' = TRUE
            /\ pipeline_internal_stop_event' = TRUE
       ELSE /\ lpc' = "loop"
            /\ UNCHANGED << lfinal, pipeline_internal_stop_event >>
    /\ UNCHANGED << config, cpu, metrics, source, server_socket, client_connection,
                    generator_thread, consumer_thread, stop_called,
                    global_server_stop_event, frames_queue, gpc, cpc,
                    clocals, cstate, ghosts >>

\* accept() returns a client: the stop event is cleared, the generator
\* instance prepared, both threads created and started
ListenerAccept ==
    /\ lpc = "accept"
    /\ server_socket = "listening"
    /\ config.image_source_mode \in SupportedModes
    /\ client_connection' = "open"
    /\ pipeline_internal_stop_event' = FALSE
    /\ generator_thread' = FreeSlot(gpc)
    /\ consumer_thread' = FreeSlot(cpc)
    /\ gpc' = [gpc EXCEPT ![FreeSlot(gpc)] =
                 IF config.image_source_mode = "SCREEN_CAPTURE"
                 THEN "start" ELSE "loop"]
    /\ cpc' = [cpc EXCEPT ![FreeSlot(cpc)] = "start"]
    /\ generator_instance' = GeneratorClass(config.image_source_mode)
    /\ stop_calls' = IF generator_instance' # "none"
                     THEN 0 ELSE StopPreviousInstance
    /\ first_sent' = << >>
    /\ send_error' = FALSE
    /\ lpc' = "wait"
    /\ UNCHANGED << config, cpu, metrics, lfinal, server_socket, stop_called,
                    global_server_stop_event, frames_queue, clocals,
                    cstate, prev_at_get, wire_pixels, wire_packets >>

\* accept() returns a client and the stop event is cleared, but the
\* constructor of the generator raises or the mode has no branch:
\* _initialize_generator_instance returns False, the client is closed and
\* the loop continues
ListenerAcceptInitFail ==
    /\ lpc = "accept"
    /\ server_socket = "listening"
    /\ \/ GeneratorClass(config.image_source_mode) # "none"
       \/ config.image_source_mode \notin SupportedModes
    /\ pipeline_internal_stop_event' = FALSE
    /\ generator_instance' = "none"
    /\ stop_calls' = StopPreviousInstance
    /\ client_connection' = "none"
    /\ first_sent' = << >>
    /\ send_error' = FALSE
    /\ lpc' = "loop"
    /\ UNCHANGED << config, cpu, metrics, lfinal, server_socket, generator_thread,
                    consumer_thread, stop_called, global_server_stop_event,
                    frames_queue, gpc, cpc, clocals, cstate, prev_at_get,
                    wire_pixels, wire_packets >>

\* a cleanup that closes the client socket in its first statement
ListenerWaitDone_CloseFirst ==
    /\ lpc = "wait"
    /\ \/ ~ConsumerAlive(consumer_thread)
       \/ global_server_stop_event
    /\ pipeline_internal_stop_event' = TRUE
    /\ client_connection' = "none"
    /\ lfinal' = FALSE
    /\ lpc' = "join_gen"
    /\ UNCHANGED << config, cpu, metrics, source, server_socket, generator_thread,
                    consumer_thread, stop_called, global_server_stop_event,
                    frames_queue, gpc, cpc, clocals, cstate, ghosts >>

\* while self._consumer_thread.is_alive() and not global stop: join(0.2)
\* followed by the first statement of _cleanup_active_session
ListenerWaitDone ==
    /\ lpc = "wait"
    /\ \/ ~ConsumerAlive(consumer_thread)
       \/ global_server_stop_event
    /\ pipeline_internal_stop_event' = TRUE
    /\ lfinal' = FALSE
    /\ lpc' = "join_gen"
    /\ UNCHANGED << config, cpu, metrics, source, server_socket, client_connection,
                    generator_thread, consumer_thread, stop_called,
                    global_server_stop_event, frames_queue, gpc, cpc,
                    clocals, cstate, ghosts >>

\* _generator_thread.join(timeout=2) when the thread is alive, then
\* _generator_thread = None.  The join returns when the thread has ended;
\* it can time out only while the thread is inside a call of unbounded
\* duration (rendering or capturing a frame), and here only while a slot
\* is left for the generator of the next session.
CleanupJoinGenerator ==
    /\ lpc = "join_gen"
    /\ \/ generator_thread = None
       \/ /\ generator_thread # None
          /\ ~GeneratorAlive(generator_thread)
       \/ /\ generator_thread # None
          /\ gpc[generator_thread] = "render"
          /\ Cardinality({t \in Threads : GeneratorAlive(t)}) < MaxThreads
    /\ generator_thread' = None
    /\ lpc' = "join_con"
    /\ UNCHANGED << config, cpu, metrics, source, lfinal, server_socket, client_connection,
                    consumer_thread, events, frames_queue, gpc, cpc,
                    clocals, cstate, ghosts >>

\* _consumer_thread.join(timeout=3) when the thread is alive, then
\* _consumer_thread = None.  It can time out only while the thread is
\* sending the chunks of a frame (each sendall blocks up to the socket
\* timeout), and here only while a slot is left for the next consumer.
CleanupJoinConsumer ==
    /\ lpc = "join_con"
    /\ \/ consumer_thread = None
       \/ /\ consumer_thread # None
          /\ ~ConsumerAlive(consumer_thread)
       \/ /\ consumer_thread # None
          /\ cpc[consumer_thread] = "send"
          /\ Cardinality({t \in Threads : ConsumerAlive(t)}) < MaxThreads
    /\ consumer_thread' = None
    /\ lpc' = "close"
    /\ UNCHANGED << config, cpu, metrics, source, lfinal, server_socket, client_connection,
                    generator_thread, events, frames_queue, gpc, cpc,
                    clocals, cstate, ghosts >>

\* client_connection.close(); client_connection = None
CleanupCloseClient ==
    /\ lpc = "close"
    /\ client_connection' = "none"
    /\ lpc' = "stop_source"
    /\ UNCHANGED << config, cpu, metrics, source, lfinal, server_socket, generator_thread,
                    consumer_thread, events, frames_queue, gpc, cpc,
                    clocals, cstate, ghosts >>

\* a cleanup that stops the generator instance and keeps the reference
CleanupStopSource_KeepInstance ==
    /\ lpc = "stop_source"
    /\ stop_calls' = StopPreviousInstance
    /\ lpc' = "drain"
    /\ UNCHANGED << config, cpu, metrics, generator_instance, lfinal, server_socket,
                    client_connection, generator_thread, consumer_thread,
                    events, frames_queue, gpc, cpc, clocals, cstate,
                    ghosts >>

\* _generator_instance.stop() when there is an instance and it has a
\* stop method, then _generator_instance = None
CleanupStopSource ==
    /\ lpc = "stop_source"
    /\ stop_calls' = StopPreviousInstance
    /\ generator_instance' = "none"
    /\ lpc' = "drain"
    /\ UNCHANGED << config, cpu, metrics, lfinal, server_socket, client_connection,
                    generator_thread, consumer_thread, events,
                    frames_queue, gpc, cpc, clocals, cstate, ghosts >>

\* the queue is emptied and _prev_processed_image reset; the cleanup
\* returns into the loop, or to the end of _listening_loop
CleanupDrain ==
    /\ lpc = "drain"
    /\ frames_queue' = << >>
    /\ prev_processed_image' = NoImage
    /\ lpc' = IF lfinal THEN "close_server" ELSE "loop"
    /\ UNCHANGED << config, cpu, metrics, source, lfinal, server_socket, client_connection,
                    generator_thread, consumer_thread, events, gpc, cpc,
                    clocals, current_dynamic_threshold,
                    frame_processing_times_history, ghosts >>

\* an end of _listening_loop that leaves the listening socket as it is
ListenerCloseServer_Skip ==
    /\ lpc = "close_server"
    /\ lpc' = "terminated"
    /\ UNCHANGED << config, cpu, metrics, source, lfinal, server_socket, client_connection,
                    generator_thread, consumer_thread, events, frames_queue,
                    gpc, cpc, clocals, cstate, ghosts >>

\* self.server_socket.close() at the end of _listening_loop
ListenerCloseServer ==
    /\ lpc = "close_server"
    /\ server_socket' = "closed"
    /\ lpc' = "terminated"
    /\ UNCHANGED << config, cpu, metrics, source, lfinal, client_connection, generator_thread,
                    consumer_thread, events, frames_queue, gpc, cpc,
                    clocals, cstate, ghosts >>

----------------------------------------------------------------------------
(* Generator thread: _generator_loop *)

\* The statements before the loop of a SCREEN_CAPTURE pipeline: mss.mss()
\* gives the thread its capture handle
GeneratorStart(t) ==
    /\ gpc[t] = "start"
    /\ gpc' = [gpc EXCEPT ![t] = "loop"]
    /\ UNCHANGED << config, cpu, metrics, source, lvars, events,
                    frames_queue, cpc, clocals, cstate, ghosts >>

\* mss.mss() raises: the thread sets the stop event of the session and
\* returns
GeneratorStartFatal(t) ==
    /\ gpc[t] = "start"
    /\ pipeline_internal_stop_event' = TRUE
    /\ gpc' = [gpc EXCEPT ![t] = "none"]
    /\ UNCHANGED << config, cpu, metrics, source, lvars, stop_called,
                    global_server_stop_event, frames_queue, cpc, clocals,
                    cstate, ghosts >>

\* a loop that goes on to render whatever the queue holds
GeneratorLoop_Eager(t) ==
    /\ gpc[t] = "loop"
    /\ gpc' = [gpc EXCEPT ![t] =
                 IF pipeline_internal_stop_event \/ global_server_stop_event
                 THEN "none" ELSE "render"]
    /\ UNCHANGED << config, cpu, metrics, source, lvars, events,
                    frames_queue, cpc, clocals, cstate, ghosts >>

\* The loop condition, the read of the queue size and the water-mark test:
\* the thread ends when a stop event is set, goes on to render a frame when
\* q_size < low_water_mark, and otherwise waits 10 ms and tests again.
GeneratorLoop(t) ==
    /\ gpc[t] = "loop"
    /\ \/ pipeline_internal_stop_event
       \/ global_server_stop_event
       \/ Len(frames_queue) < LowWaterMark
    /\ gpc' = [gpc EXCEPT ![t] =
                 IF pipeline_internal_stop_event \/ global_server_stop_event
                 THEN "none" ELSE "render"]
    /\ UNCHANGED << config, cpu, metrics, source, lvars, events, frames_queue, cpc, clocals,
                    cstate, ghosts >>

\* a put that stores the frame whatever the queue holds
GeneratorPut_Unbounded(t) ==
    /\ gpc[t] = "render"
    /\ \E generated_image \in SourceImages :
           frames_queue' = Append(frames_queue, generated_image)
    /\ frames_generated_total' =
           IF frames_generated_total < MaxGenerated
           THEN frames_generated_total + 1 ELSE MaxGenerated
    /\ gpc' = [gpc EXCEPT ![t] = "loop"]
    /\ UNCHANGED << config, cpu, source, lvars, events, cpc, clocals, cstate, ghosts >>

\* The source renders a frame and frames_queue.put(image, timeout=0.1)
\* stores it
GeneratorPut(t) ==
    /\ gpc[t] = "render"
    /\ Len(frames_queue) < QMax
    /\ \E generated_image \in SourceImages :
           frames_queue' = Append(frames_queue, generated_image)
    /\ frames_generated_total' =
           IF frames_generated_total < MaxGenerated
           THEN frames_generated_total + 1 ELSE MaxGenerated
    /\ gpc' = [gpc EXCEPT ![t] = "loop"]
    /\ UNCHANGED << config, cpu, source, lvars, events, cpc, clocals, cstate, ghosts >>

\* a put that counts the frame it could not store
GeneratorPutFull_Counted(t) ==
    /\ gpc[t] = "render"
    /\ Len(frames_queue) >= QMax
    /\ frames_generated_total' =
           IF frames_generated_total < MaxGenerated
           THEN frames_generated_total + 1 ELSE MaxGenerated
    /\ gpc' = [gpc EXCEPT ![t] = "loop"]
    /\ UNCHANGED << config, cpu, source, lvars, events, frames_queue, cpc,
                    clocals, cstate, ghosts >>

\* The source renders a frame and put() raises queue.Full after its
\* timeout: the frame is dropped
GeneratorPutFull(t) ==
    /\ gpc[t] = "render"
    /\ Len(frames_queue) >= QMax
    /\ gpc' = [gpc EXCEPT ![t] = "loop"]
    /\ UNCHANGED << config, cpu, metrics, source, lvars, events, frames_queue, cpc, clocals,
                    cstate, ghosts >>

\* a handler that ends the session on any exception of the source
GeneratorRenderError_Stop(t) ==
    /\ gpc[t] = "render"
    /\ pipeline_internal_stop_event' = TRUE
    /\ gpc' = [gpc EXCEPT ![t] = "none"]
    /\ UNCHANGED << config, cpu, metrics, source, lvars, stop_called,
                    global_server_stop_event, frames_queue, cpc, clocals,
                    cstate, ghosts >>

\* The source raises while it renders: a ScreenShotError after which
\* mss.mss() gives a new handle (the thread sleeps 1 s), or any other
\* exception (it sleeps 0.1 s).  No frame is made; the loop goes on.
GeneratorRenderError(t) ==
    /\ gpc[t] = "render"
    /\ gpc' = [gpc EXCEPT ![t] = "loop"]
    /\ UNCHANGED << config, cpu, metrics, source, lvars, events,
                    frames_queue, cpc, clocals, cstate, ghosts >>

\* a generator that leaves the loop on a failed capture without a signal
GeneratorFatal_Silent(t) ==
    /\ gpc[t] = "render"
    /\ config.image_source_mode = "SCREEN_CAPTURE"
    /\ gpc' = [gpc EXCEPT ![t] = "none"]
    /\ UNCHANGED << config, cpu, metrics, source, lvars, events,
                    frames_queue, cpc, clocals, cstate, ghosts >>

\* The capture raises ScreenShotError and mss.mss() raises as well: the
\* thread sets the stop event of the session and leaves the loop
GeneratorFatal(t) ==
    /\ gpc[t] = "render"
    /\ config.image_source_mode = "SCREEN_CAPTURE"
    /\ pipeline_internal_stop_event' = TRUE
    /\ gpc' = [gpc EXCEPT ![t] = "none"]
    /\ UNCHANGED << config, cpu, metrics, source, lvars, stop_called,
                    global_server_stop_event, frames_queue, cpc, clocals,
                    cstate, ghosts >>

GeneratorStep(t) ==
    \/ GeneratorStart(t)
    \/ GeneratorStartFatal(t)
    \/ GeneratorLoop(t)
    \/ GeneratorPut(t)
    \/ GeneratorPutFull(t)
    \/ GeneratorRenderError(t)
    \/ GeneratorFatal(t)

----------------------------------------------------------------------------
(* Consumer thread: _consumer_loop *)

\* The statements before the loop: the per-session state is reset
ConsumerStart(t) ==
    /\ cpc[t] = "start"
    /\ prev_processed_image' = NoImage
    /\ current_dynamic_threshold' = InitialThreshold(config)
    /\ frame_processing_times_history' = << >>
    /\ cpc' = [cpc EXCEPT ![t] = "loop"]
    /\ UNCHANGED << config, cpu, metrics, source, lvars, events, frames_queue, gpc, clocals,
                    ghosts >>

\* The loop condition
ConsumerLoop(t) ==
    /\ cpc[t] = "loop"
    /\ cpc' = [cpc EXCEPT ![t] =
                 IF pipeline_internal_stop_event \/ global_server_stop_event
                 THEN "none" ELSE "get"]
    /\ UNCHANGED << config, cpu, metrics, source, lvars, events, frames_queue, gpc, clocals,
                    cstate, ghosts >>

\* frames_queue.get(timeout=0.1) raises queue.Empty: continue
ConsumerGetTimeout(t) ==
    /\ cpc[t] = "get"
    /\ frames_queue = << >>
    /\ cpc' = [cpc EXCEPT ![t] = "loop"]
    /\ UNCHANGED << config, cpu, metrics, source, lvars, events, frames_queue, gpc, clocals,
                    cstate, ghosts >>

\* a get that takes the newest frame of the queue
ConsumerGet_Newest(t) ==
    /\ cpc[t] = "get"
    /\ frames_queue # << >>
    /\ LET raw_frame == frames_queue[Len(frames_queue)]
           img_resized == Resize(raw_frame)
           dirty_rects_list ==
               FindDirtyRects(prev_processed_image, img_resized,
                              current_dynamic_threshold)
       IN /\ frames_queue' = SubSeq(frames_queue, 1,
                                      Len(frames_queue) - 1)
          /\ cframe' = [cframe EXCEPT ![t] = img_resized]
          /\ crects' = [crects EXCEPT ![t] = dirty_rects_list]
          /\ cchunks' = [cchunks EXCEPT ![t] = FrameChunks(dirty_rects_list)]
    /\ cpc' = [cpc EXCEPT ![t] = "send"]
    /\ prev_at_get' = [prev_at_get EXCEPT ![t] = prev_processed_image]
    /\ wire_pixels' = [wire_pixels EXCEPT ![t] = {}]
    /\ wire_packets' = [wire_packets EXCEPT ![t] = << >>]
    /\ UNCHANGED << config, cpu, metrics, source, lvars, events, gpc, cstate, first_sent,
                    send_error >>

\* frames_queue.get returns a frame; it is resized, the dirty rects are
\* listed and the chunks to send follow from them
ConsumerGet(t) ==
    /\ cpc[t] = "get"
    /\ frames_queue # << >>
    /\ LET raw_frame == Head(frames_queue)
           img_resized == Resize(raw_frame)
           dirty_rects_list ==
               FindDirtyRects(prev_processed_image, img_resized,
                              current_dynamic_threshold)
       IN /\ frames_queue' = Tail(frames_queue)
          /\ cframe' = [cframe EXCEPT ![t] = img_resized]
          /\ crects' = [crects EXCEPT ![t] = dirty_rects_list]
          /\ cchunks' = [cchunks EXCEPT ![t] = FrameChunks(dirty_rects_list)]
    /\ cpc' = [cpc EXCEPT ![t] = "send"]
    /\ prev_at_get' = [prev_at_get EXCEPT ![t] = prev_processed_image]
    /\ wire_pixels' = [wire_pixels EXCEPT ![t] = {}]
    /\ wire_packets' = [wire_packets EXCEPT ![t] = << >>]
    /\ UNCHANGED << config, cpu, metrics, source, lvars, events, gpc, cstate, first_sent,
                    send_error >>

\* self.client_connection.sendall(packet) returns for the next chunk
ConsumerSend(t) ==
    /\ cpc[t] = "send"
    /\ cchunks[t] # << >>
    /\ client_connection = "open"
    /\ cchunks' = [cchunks EXCEPT ![t] = Tail(@)]
    /\ first_sent' = IF first_sent = << >>
                     THEN << Head(cchunks[t]) >> ELSE first_sent
    /\ wire_pixels' = [wire_pixels EXCEPT ![t] =
                          @ \cup RectPixels(Head(cchunks[t]).chunk)]
    /\ wire_packets' = [wire_packets EXCEPT ![t] =
          Append(@, [rect |-> Head(cchunks[t]).rect,
                     packet |-> ChunkPacket(cframe[t],
                                            Head(cchunks[t]).chunk)])]
    /\ UNCHANGED << config, cpu, metrics, source, lvars, events, frames_queue, gpc, cpc,
                    cframe, crects, cstate, send_error, prev_at_get >>

\* a socket error after which the failed frame is promoted
ConsumerSendError_Promote(t) ==
    /\ cpc[t] = "send"
    /\ cchunks[t] # << >>
    /\ cpc' = [cpc EXCEPT ![t] = "none"]
    /\ prev_processed_image' = cframe[t]
    /\ cframe' = [cframe EXCEPT ![t] = NoImage]
    /\ crects' = [crects EXCEPT ![t] = << >>]
    /\ cchunks' = [cchunks EXCEPT ![t] = << >>]
    /\ send_error' = TRUE
    /\ prev_at_get' = [prev_at_get EXCEPT ![t] = NoImage]
    /\ wire_pixels' = [wire_pixels EXCEPT ![t] = {}]
    /\ wire_packets' = [wire_packets EXCEPT ![t] = << >>]
    /\ UNCHANGED << config, cpu, metrics, source, lvars, events, frames_queue, gpc,
                    current_dynamic_threshold,
                    frame_processing_times_history, first_sent >>

\* a socket error after which the thread drops the frame and goes on
ConsumerSendError_GoOn(t) ==
    /\ cpc[t] = "send"
    /\ cchunks[t] # << >>
    /\ cpc' = [cpc EXCEPT ![t] = "loop"]
    /\ cframe' = [cframe EXCEPT ![t] = NoImage]
    /\ crects' = [crects EXCEPT ![t] = << >>]
    /\ cchunks' = [cchunks EXCEPT ![t] = << >>]
    /\ send_error' = TRUE
    /\ prev_at_get' = [prev_at_get EXCEPT ![t] = NoImage]
    /\ wire_pixels' = [wire_pixels EXCEPT ![t] = {}]
    /\ wire_packets' = [wire_packets EXCEPT ![t] = << >>]
    /\ UNCHANGED << config, cpu, metrics, source, lvars, events, frames_queue, gpc, cstate,
                    first_sent >>

\* The send of the next chunk raises socket.error (the connection is None,
\* the peer is gone, or the send timed out): the chunk loops are left, the
\* error is raised again and the handler leaves the thread's loop
ConsumerSendError(t) ==
    /\ cpc[t] = "send"
    /\ cchunks[t] # << >>
    /\ cpc' = [cpc EXCEPT ![t] = "none"]
    /\ cframe' = [cframe EXCEPT ![t] = NoImage]
    /\ crects' = [crects EXCEPT ![t] = << >>]
    /\ cchunks' = [cchunks EXCEPT ![t] = << >>]
    /\ send_error' = TRUE
    /\ prev_at_get' = [prev_at_get EXCEPT ![t] = NoImage]
    /\ wire_pixels' = [wire_pixels EXCEPT ![t] = {}]
    /\ wire_packets' = [wire_packets EXCEPT ![t] = << >>]
    /\ UNCHANGED << config, cpu, metrics, source, lvars, events, frames_queue, gpc, cstate,
                    first_sent >>

\* a completed frame that is not made the previous image
ConsumerFinish_KeepPrevious(t) ==
    /\ cpc[t] = "send"
    /\ cchunks[t] = << >>
    /\ \E frame_total_processing_time \in FrameTimes :
          LET history == HistoryAppend(frame_processing_times_history,
                                       frame_total_processing_time)
          IN /\ frame_processing_times_history' = history
             /\ current_dynamic_threshold' =
                    AdaptThreshold(current_dynamic_threshold, history,
                                   config)
    /\ cpc' = [cpc EXCEPT ![t] = "loop"]
    /\ cframe' = [cframe EXCEPT ![t] = NoImage]
    /\ crects' = [crects EXCEPT ![t] = << >>]
    /\ prev_at_get' = [prev_at_get EXCEPT ![t] = NoImage]
    /\ wire_pixels' = [wire_pixels EXCEPT ![t] = {}]
    /\ wire_packets' = [wire_packets EXCEPT ![t] = << >>]
    /\ UNCHANGED << config, cpu, metrics, source, lvars, events, frames_queue, gpc, cchunks,
                    prev_processed_image, first_sent, send_error >>

\* All chunks were sent (or there were none): the frame becomes the
\* previous image, its processing time is recorded and the threshold
\* adapted
ConsumerFinish(t) ==
    /\ cpc[t] = "send"
    /\ cchunks[t] = << >>
    /\ prev_processed_image' = cframe[t]
    /\ \E frame_total_processing_time \in FrameTimes :
          LET history == HistoryAppend(frame_processing_times_history,
                                       frame_total_processing_time)
          IN /\ frame_processing_times_history' = history
             /\ current_dynamic_threshold' =
                    AdaptThreshold(current_dynamic_threshold, history,
                                   config)
    /\ cpc' = [cpc EXCEPT ![t] = "loop"]
    /\ cframe' = [cframe EXCEPT ![t] = NoImage]
    /\ crects' = [crects EXCEPT ![t] = << >>]
    /\ prev_at_get' = [prev_at_get EXCEPT ![t] = NoImage]
    /\ wire_pixels' = [wire_pixels EXCEPT ![t] = {}]
    /\ wire_packets' = [wire_packets EXCEPT ![t] = << >>]
    /\ UNCHANGED << config, cpu, metrics, source, lvars, events, frames_queue, gpc, cchunks,
                    first_sent, send_error >>

ConsumerStep(t) ==
    \/ ConsumerStart(t)
    \/ ConsumerLoop(t)
    \/ ConsumerGetTimeout(t)
    \/ ConsumerGet(t)
    \/ ConsumerSendError(t)
    \/ ConsumerFinish(t)
    \/ ConsumerSend(t)

----------------------------------------------------------------------------
(* Environment: the client and the process that owns the pipeline *)

\* The client closes its end of the connection or becomes unreachable
ClientDisconnect ==
    /\ client_connection = "open"
    /\ client_connection' = "gone"
    /\ UNCHANGED << config, cpu, metrics, source, lpc, lfinal, server_socket, generator_thread,
                    consumer_thread, events, frames_queue, gpc, cpc,
                    clocals, cstate, ghosts >>

\* The owner sets the process-wide stop event
GlobalShutdown ==
    /\ ~global_server_stop_event
    /\ global_server_stop_event' = TRUE
    /\ UNCHANGED << config, cpu, metrics, source, lvars, stop_called,
                    pipeline_internal_stop_event, frames_queue, gpc, cpc,
                    clocals, cstate, ghosts >>

\* stop_pipeline_manager, called once the global stop event is set
StopPipelineManager ==
    /\ global_server_stop_event
    /\ ~stop_called
    /\ stop_called' = TRUE
    /\ pipeline_internal_stop_event' = TRUE
    /\ server_socket' = IF server_socket = "none" THEN "none" ELSE "closed"
    /\ UNCHANGED << config, cpu, metrics, source, lpc, lfinal, client_connection,
                    generator_thread, consumer_thread,
                    global_server_stop_event, frames_queue, gpc, cpc,
                    clocals, cstate, ghosts >>

----------------------------------------------------------------------------

Next ==
    \/ ListenerBind
    \/ ListenerBindFail
    \/ ListenerLoop
    \/ ListenerAcceptTimeout
    \/ ListenerAcceptError
    \/ ListenerAccept
    \/ ListenerAcceptInitFail
    \/ ListenerWaitDone
    \/ CleanupJoinGenerator
    \/ CleanupJoinConsumer
    \/ CleanupCloseClient
    \/ CleanupStopSource
    \/ CleanupDrain
    \/ ListenerCloseServer
    \/ \E t \in Threads : GeneratorStart(t)
    \/ \E t \in Threads : GeneratorStartFatal(t)
    \/ \E t \in Threads : GeneratorLoop(t)
    \/ \E t \in Threads : GeneratorPut(t)
    \/ \E t \in Threads : GeneratorPutFull(t)
    \/ \E t \in Threads : GeneratorRenderError(t)
    \/ \E t \in Threads : GeneratorFatal(t)
    \/ \E t \in Threads : ConsumerStart(t)
    \/ \E t \in Threads : ConsumerLoop(t)
    \/ \E t \in Threads : ConsumerGetTimeout(t)
    \/ \E t \in Threads : ConsumerGet(t)
    \/ \E t \in Threads : ConsumerSendError(t)
    \/ \E t \in Threads : ConsumerFinish(t)
    \/ ClientDisconnect
    \/ GlobalShutdown
    \/ StopPipelineManager
    \/ \E t \in Threads : ConsumerSend(t)

Spec == Init /\ [][Next]_vars

\* Some thread that can take a step does: the scheduler never stops
\* every thread.  (Accepts that time out and the environment's steps count
\* as steps; no single thread is promised the processor.)
ProgressSpec == Spec /\ WF_vars(Next)

ManagerStep ==
    \/ ListenerLoop
    \/ ListenerAcceptError
    \/ ListenerWaitDone
    \/ CleanupJoinGenerator
    \/ CleanupJoinConsumer
    \/ CleanupCloseClient
    \/ CleanupStopSource
    \/ CleanupDrain
    \/ ListenerCloseServer

\* a step of a generator or consumer thread while a stop event is set
StopStep ==
    /\ pipeline_internal_stop_event \/ global_server_stop_event
    /\ \E t \in Threads : GeneratorStep(t) \/ ConsumerStep(t)

\* The configuration never changes, so the behaviours of Spec are those of
\* the pipeline with the CPU monitor and those of the pipeline that
\* captures the screen.  The specifications below take one pipeline each.

\* the pipeline whose source is the CPU monitor
MonitorInit ==
    /\ config \in {c \in Configs : c.image_source_mode = "CPU_MONITOR"}
    /\ Constructed

\* Next without the steps only a SCREEN_CAPTURE generator has
MonitorNext ==
    \/ ListenerBind
    \/ ListenerBindFail
    \/ ListenerLoop
    \/ ListenerAcceptTimeout
    \/ ListenerAcceptError
    \/ ListenerAccept
    \/ ListenerAcceptInitFail
    \/ ListenerWaitDone
    \/ CleanupJoinGenerator
    \/ CleanupJoinConsumer
    \/ CleanupCloseClient
    \/ CleanupStopSource
    \/ CleanupDrain
    \/ ListenerCloseServer
    \/ \E t \in Threads : GeneratorLoop(t)
    \/ \E t \in Threads : GeneratorPut(t)
    \/ \E t \in Threads : GeneratorPutFull(t)
    \/ \E t \in Threads : GeneratorRenderError(t)
    \/ \E t \in Threads : ConsumerStart(t)
    \/ \E t \in Threads : ConsumerLoop(t)
    \/ \E t \in Threads : ConsumerGetTimeout(t)
    \/ \E t \in Threads : ConsumerGet(t)
    \/ \E t \in Threads : ConsumerSendError(t)
    \/ \E t \in Threads : ConsumerFinish(t)
    \/ ClientDisconnect
    \/ GlobalShutdown
    \/ StopPipelineManager
    \/ \E t \in Threads : ConsumerSend(t)

\* the pipeline whose source is the screen
ScreenInit ==
    /\ config \in {c \in Configs : c.image_source_mode = "SCREEN_CAPTURE"}
    /\ Constructed

\* Next without the failure of a generator's constructor, which a
\* SCREEN_CAPTURE pipeline does not have
ScreenNext ==
    \/ ListenerBind
    \/ ListenerBindFail
    \/ ListenerLoop
    \/ ListenerAcceptTimeout
    \/ ListenerAcceptError
    \/ ListenerAccept
    \/ ListenerWaitDone
    \/ CleanupJoinGenerator
    \/ CleanupJoinConsumer
    \/ CleanupCloseClient
    \/ CleanupStopSource
    \/ CleanupDrain
    \/ ListenerCloseServer
    \/ \E t \in Threads : GeneratorStart(t)
    \/ \E t \in Threads : GeneratorStartFatal(t)
    \/ \E t \in Threads : GeneratorLoop(t)
    \/ \E t \in Threads : GeneratorPut(t)
    \/ \E t \in Threads : GeneratorPutFull(t)
    \/ \E t \in Threads : GeneratorRenderError(t)
    \/ \E t \in Threads : GeneratorFatal(t)
    \/ \E t \in Threads : ConsumerStart(t)
    \/ \E t \in Threads : ConsumerLoop(t)
    \/ \E t \in Threads : ConsumerGetTimeout(t)
    \/ \E t \in Threads : ConsumerGet(t)
    \/ \E t \in Threads : ConsumerSendError(t)
    \/ \E t \in Threads : ConsumerFinish(t)
    \/ ClientDisconnect
    \/ GlobalShutdown
    \/ StopPipelineManager
    \/ \E t \in Threads : ConsumerSend(t)

\* The manager thread takes a step when it can, and so does a thread that
\* has been told to stop: a generator whose source keeps failing sleeps
\* after every failure (0.1 s or 1 s) and so cannot keep the others from
\* running.  Threads that have not been told to stop are promised nothing.
MonitorTeardownSpec ==
    MonitorInit /\ [][MonitorNext]_vars /\ WF_vars(ManagerStep \/ StopStep)

\* Some thread that can take a step does
MonitorProgressSpec ==
    MonitorInit /\ [][MonitorNext]_vars /\ WF_vars(MonitorNext)

ScreenProgressSpec ==
    ScreenInit /\ [][ScreenNext]_vars /\ WF_vars(ScreenNext)

\* Every thread that can take a step does: the manager (though no client
\* need ever connect, so an accept may always time out), every generator
\* and every consumer thread.
FairSpec ==
    /\ Spec
    /\ WF_vars(ManagerStep)
    /\ \A t \in Threads : WF_vars(GeneratorStep(t))
    /\ \A t \in Threads : WF_vars(ConsumerStep(t))

TypeOK ==
    /\ config \in Configs
    /\ lpc \in {"bind", "loop", "accept", "wait", "join_gen", "join_con",
                "close", "stop_source", "drain", "close_server",
                "terminated"}
    /\ generator_instance \in {"none", GeneratorClass(config.image_source_mode)}
    /\ stop_calls \in 0..1
    /\ client_connection \in {"none", "open", "gone"}
    /\ Len(frames_queue) <= QMax
    /\ gpc \in [Threads -> {"none", "start", "loop", "render"}]
    /\ frames_generated_total \in 0..MaxGenerated
    /\ cpu_lock \in {"free", "data", "draw"}
    /\ dpc \in {"loop", "acquire", "append"}
    /\ fpc \in {"idle", "copy", "draw"}


----------------------------------------------------------------------------
(* One frame through the consumer: the detector, the chunker and the     *)
(* packer applied to a previous image, a frame and a threshold drawn     *)
(* from small sets                                                        *)

\* pixel values whose differences are 9, 5 and 4
FramePixels == {Black, <<4, 3, 2>>, <<2, 2, 1>>}

\* every image of the target size over these pixel values
FrameImages ==
    [1..TargetHeight -> [1..TargetWidth -> FramePixels]]

\* previous images of another size than the target
OddSizeImages == {SolidImage(1, 1, Black), SolidImage(1, 2, <<4, 3, 2>>)}

\* thresholds: none, and the two smaller differences of the pixel values
\* (a difference equal to the threshold is not a change), and the largest
FrameThresholds == {0, 4, 5, 9}

\* A session in which the consumer of slot 1 is about to take the one
\* frame in the queue
FrameInit ==
    /\ config = [target_width |-> TargetWidth,
                 target_height |-> TargetHeight,
                 max_chunk_data_size |-> MaxChunkData,
       image_source_mode |-> "CPU_MONITOR",
       wb_scale |-> <<100, 100, 100>>,
                 min_dirty_rect_threshold |-> 5,
                 max_dirty_rect_threshold |-> 15]
    /\ lpc = "wait"
    /\ lfinal = FALSE
    /\ server_socket = "listening"
    /\ stop_called = FALSE
    /\ client_connection = "open"
    /\ global_server_stop_event = FALSE
    /\ pipeline_internal_stop_event = FALSE
    /\ frames_queue \in {<<img>> : img \in FrameImages}
    /\ generator_thread = 1
    /\ consumer_thread = 1
    /\ generator_instance = GeneratorClass(config.image_source_mode)
    /\ stop_calls = 0
    /\ gpc = [t \in Threads |-> IF t = 1 THEN "loop" ELSE "none"]
    /\ cpc = [t \in Threads |-> IF t = 1 THEN "get" ELSE "none"]
    /\ cframe = [t \in Threads |-> NoImage]
    /\ crects = [t \in Threads |-> << >>]
    /\ cchunks = [t \in Threads |-> << >>]
    /\ prev_processed_image \in FrameImages \cup OddSizeImages \cup {NoImage}
    /\ current_dynamic_threshold \in FrameThresholds
    /\ frame_processing_times_history = << >>
    /\ first_sent = << >>
    /\ send_error = FALSE
    /\ prev_at_get = [t \in Threads |-> NoImage]
    /\ wire_pixels = [t \in Threads |-> {}]
    /\ wire_packets = [t \in Threads |-> << >>]
    /\ frames_generated_total = 0
    /\ CpuConstructed

FrameNext ==
    \/ ConsumerGet(1)
    \/ ConsumerSend(1)
    \/ ConsumerFinish(1)

FrameSpec == FrameInit /\ [][FrameNext]_vars

----------------------------------------------------------------------------
(* One frame through the consumer of a pipeline with a larger target and  *)
(* a chunk limit drawn from a small set: the frame differs from the       *)
(* previous image in one rectangle, which the detector yields             *)

\* config['target_width'], config['target_height'] of these pipelines
ChunkTargetWidth == 4
ChunkTargetHeight == 3

\* config['max_chunk_data_size']: less than a row of two pixels, a row of
\* two pixels, one byte less than and exactly a rect of 2 x 2, two rows of
\* four pixels, and the whole frame
ChunkLimits == {3, 4, 7, 8, 16, 24}

ChunkConfigs ==
    { [target_width |-> ChunkTargetWidth,
       target_height |-> ChunkTargetHeight,
       max_chunk_data_size |-> l,
       image_source_mode |-> "CPU_MONITOR",
       wb_scale |-> <<100, 100, 100>>,
       min_dirty_rect_threshold |-> 5,
       max_dirty_rect_threshold |-> 15] : l \in ChunkLimits }

\* every rect (x, y, w, h) of positive area inside the target
ChunkRects ==
    { r \in (0..(ChunkTargetWidth - 1)) \X (0..(ChunkTargetHeight - 1))
            \X (1..ChunkTargetWidth) \X (1..ChunkTargetHeight) :
        /\ r[1] + r[3] <= ChunkTargetWidth
        /\ r[2] + r[4] <= ChunkTargetHeight }

\* a black image of the target size with the pixels of rect r lit
LitRect(r) ==
    [y \in 1..ChunkTargetHeight |->
        [x \in 1..ChunkTargetWidth |->
            IF <<x - 1, y - 1>> \in RectPixels(r) THEN <<8, 4, 8>>
            ELSE Black]]

\* A session whose previous image is black, in which the consumer of slot
\* 1 is about to take a frame that lights one rect
ChunkInit ==
    /\ config \in ChunkConfigs
    /\ lpc = "wait"
    /\ lfinal = FALSE
    /\ server_socket = "listening"
    /\ stop_called = FALSE
    /\ client_connection = "open"
    /\ global_server_stop_event = FALSE
    /\ pipeline_internal_stop_event = FALSE
    /\ frames_queue \in {<<LitRect(r)>> : r \in ChunkRects}
    /\ generator_thread = 1
    /\ consumer_thread = 1
    /\ generator_instance = GeneratorClass(config.image_source_mode)
    /\ stop_calls = 0
    /\ gpc = [t \in Threads |-> IF t = 1 THEN "loop" ELSE "none"]
    /\ cpc = [t \in Threads |-> IF t = 1 THEN "get" ELSE "none"]
    /\ cframe = [t \in Threads |-> NoImage]
    /\ crects = [t \in Threads |-> << >>]
    /\ cchunks = [t \in Threads |-> << >>]
    /\ prev_processed_image =
           SolidImage(ChunkTargetWidth, ChunkTargetHeight, Black)
    /\ current_dynamic_threshold = 5
    /\ frame_processing_times_history = << >>
    /\ first_sent = << >>
    /\ send_error = FALSE
    /\ prev_at_get = [t \in Threads |-> NoImage]
    /\ wire_pixels = [t \in Threads |-> {}]
    /\ wire_packets = [t \in Threads |-> << >>]
    /\ frames_generated_total = 0
    /\ CpuConstructed

ChunkSpec == ChunkInit /\ [][FrameNext]_vars

----------------------------------------------------------------------------
(* One frame through the consumer of a pipeline with the default chunk    *)
(* limit: a single pixel of any channel value, an image of 2 x 2 pixels   *)
(* over a few grey levels, or an image of 4 x 2 pixels of one colour      *)

\* config.get('max_chunk_data_size', 8192)
DefaultMaxChunkData == 8192

EncodeConfig(w, h) ==
    [target_width |-> w, target_height |-> h,
     max_chunk_data_size |-> DefaultMaxChunkData,
     image_source_mode |-> "CPU_MONITOR",
     wb_scale |-> <<100, 100, 100>>,
     min_dirty_rect_threshold |-> 5, max_dirty_rect_threshold |-> 15]

\* grey levels: exact ones (0, 255), ties of the quantisers (4, 12, 236),
\* and one in between; two more images of 2 x 2 pixels are such that the
\* errors of three pixels add up in the fourth
EncodeLevels == {0, 4, 12, 100, 236, 255}

\* colours no channel of which has a quantisation error
EncodeColours ==
    {<<255, 0, 0>>, <<0, 255, 0>>, <<0, 0, 255>>, <<255, 255, 255>>,
     <<248, 252, 8>>}

\* the pipelines and the frame each of them is given
EncodeInputs ==
    { [config |-> EncodeConfig(1, 1),
       frame |-> SolidImage(1, 1, <<v, v, 255 - v>>)] : v \in 0..255 }
    \cup
    { [config |-> EncodeConfig(2, 2),
       frame |-> [y \in 1..2 |-> [x \in 1..2 |->
                    <<g[y][x], g[y][x], g[y][x]>>]]] :
         g \in [1..2 -> [1..2 -> EncodeLevels]] }
    \cup
    { [config |-> EncodeConfig(2, 2),
       frame |-> [y \in 1..2 |-> [x \in 1..2 |->
                    <<g[2 * y + x - 2], g[2 * y + x - 2],
                      g[2 * y + x - 2]>>]]] :
         g \in {<<244, 250, 234, 225>>, <<229, 245, 237, 237>>} }
    \cup
    { [config |-> EncodeConfig(4, 2),
       frame |-> SolidImage(4, 2, c)] : c \in EncodeColours }

\* A session in which the consumer of slot 1 is about to take the one
\* frame in the queue, as the first frame or after a black frame
EncodeInit ==
    /\ \E in \in EncodeInputs :
          /\ config = in.config
          /\ frames_queue = << in.frame >>
    /\ lpc = "wait"
    /\ lfinal = FALSE
    /\ server_socket = "listening"
    /\ stop_called = FALSE
    /\ client_connection = "open"
    /\ global_server_stop_event = FALSE
    /\ pipeline_internal_stop_event = FALSE
    /\ generator_thread = 1
    /\ consumer_thread = 1
    /\ generator_instance = GeneratorClass(config.image_source_mode)
    /\ stop_calls = 0
    /\ gpc = [t \in Threads |-> IF t = 1 THEN "loop" ELSE "none"]
    /\ cpc = [t \in Threads |-> IF t = 1 THEN "get" ELSE "none"]
    /\ cframe = [t \in Threads |-> NoImage]
    /\ crects = [t \in Threads |-> << >>]
    /\ cchunks = [t \in Threads |-> << >>]
    /\ prev_processed_image \in
           {NoImage,
            SolidImage(config.target_width, config.target_height, Black)}
    /\ current_dynamic_threshold = 5
    /\ frame_processing_times_history = << >>
    /\ first_sent = << >>
    /\ send_error = FALSE
    /\ prev_at_get = [t \in Threads |-> NoImage]
    /\ wire_pixels = [t \in Threads |-> {}]
    /\ wire_packets = [t \in Threads |-> << >>]
    /\ frames_generated_total = 0
    /\ CpuConstructed

EncodeSpec == EncodeInit /\ [][FrameNext]_vars

----------------------------------------------------------------------------
(* Colour correction: single pixels through pipelines with the white     *)
(* balance at 1.0, 0.5, 0.85 and 1.5 on all channels                      *)

WbScales == {100, 50, 85, 150}

ColourInputs ==
    { [config |-> [EncodeConfig(1, 1) EXCEPT !.wb_scale = <<s, s, s>>],
       frame |-> SolidImage(1, 1, <<v, v, 255 - v>>)] :
         v \in 0..255, s \in WbScales }

\* A session in which the consumer of slot 1 is about to take the one
\* frame in the queue, as the first frame of the session
ColourInit ==
    /\ \E in \in ColourInputs :
          /\ config = in.config
          /\ frames_queue = << in.frame >>
    /\ lpc = "wait"
    /\ lfinal = FALSE
    /\ server_socket = "listening"
    /\ stop_called = FALSE
    /\ client_connection = "open"
    /\ global_server_stop_event = FALSE
    /\ pipeline_internal_stop_event = FALSE
    /\ generator_thread = 1
    /\ consumer_thread = 1
    /\ generator_instance = GeneratorClass(config.image_source_mode)
    /\ stop_calls = 0
    /\ gpc = [t \in Threads |-> IF t = 1 THEN "loop" ELSE "none"]
    /\ cpc = [t \in Threads |-> IF t = 1 THEN "get" ELSE "none"]
    /\ cframe = [t \in Threads |-> NoImage]
    /\ crects = [t \in Threads |-> << >>]
    /\ cchunks = [t \in Threads |-> << >>]
    /\ prev_processed_image = NoImage
    /\ current_dynamic_threshold = 5
    /\ frame_processing_times_history = << >>
    /\ first_sent = << >>
    /\ send_error = FALSE
    /\ prev_at_get = [t \in Threads |-> NoImage]
    /\ wire_pixels = [t \in Threads |-> {}]
    /\ wire_packets = [t \in Threads |-> << >>]
    /\ frames_generated_total = 0
    /\ CpuConstructed

ColourSpec == ColourInit /\ [][FrameNext]_vars

----------------------------------------------------------------------------
(* The pipeline over the kinds of image source: one with a stop method,   *)
(* one without, and a mode that creates no instance                       *)

\* CPU_MONITOR stands for the generators with a stop method (as
\* PROMETHEUS_MONITOR), SCREEN_CAPTURE for the modes without an instance
\* (as BIOS)
SourceModes == {"CPU_MONITOR", "WINDOW_CAPTURE", "SCREEN_CAPTURE"}

SourceConfigs ==
    { [target_width |-> TargetWidth, target_height |-> TargetHeight,
       max_chunk_data_size |-> MaxChunkData,
       image_source_mode |-> mode,
       wb_scale |-> <<100, 100, 100>>,
       min_dirty_rect_threshold |-> 5, max_dirty_rect_threshold |-> 15] :
      mode \in SourceModes }

SourceInit ==
    /\ config \in SourceConfigs
    /\ Constructed

SourceSpec == SourceInit /\ [][Next]_vars

----------------------------------------------------------------------------
(* Steps, as recognised from the state before and after *)

\* consumer thread t has a chunk written to the socket
SendStep(t) ==
    cpc[t] = "send" /\ cpc'[t] = "send" /\ cchunks'[t] # cchunks[t]

\* consumer thread t leaves its loop on a socket error
SendErrorStep(t) ==
    cpc[t] = "send" /\ cchunks[t] # << >> /\ cpc'[t] = "none"

\* consumer thread t completes a frame
FinishStep(t) ==
    cpc[t] = "send" /\ cpc'[t] = "loop"

\* consumer thread t runs the statements before its loop
StartStep(t) ==
    cpc[t] = "start" /\ cpc'[t] = "loop"

\* the manager accepts a client
AcceptStep ==
    lpc = "accept" /\ lpc' = "wait"

----------------------------------------------------------------------------
(* One session: the generator and the consumer of a client that has just *)
(* been accepted, with the manager waiting for the consumer to end        *)

\* the state _listening_loop leaves when it has accepted the first client
\* and started both threads
ControlInit ==
    /\ config \in Configs
    /\ lpc = "wait"
    /\ lfinal = FALSE
    /\ server_socket = "listening"
    /\ stop_called = FALSE
    /\ client_connection = "open"
    /\ global_server_stop_event = FALSE
    /\ pipeline_internal_stop_event = FALSE
    /\ frames_queue = << >>
    /\ generator_thread = 1
    /\ consumer_thread = 1
    /\ generator_instance = GeneratorClass(config.image_source_mode)
    /\ stop_calls = 0
    /\ gpc = [t \in Threads |->
                IF t # 1 THEN "none"
                ELSE IF config.image_source_mode = "SCREEN_CAPTURE"
                     THEN "start" ELSE "loop"]
    /\ cpc = [t \in Threads |-> IF t = 1 THEN "start" ELSE "none"]
    /\ cframe = [t \in Threads |-> NoImage]
    /\ crects = [t \in Threads |-> << >>]
    /\ cchunks = [t \in Threads |-> << >>]
    /\ prev_processed_image = NoImage
    /\ current_dynamic_threshold = InitialThreshold(config)
    /\ frame_processing_times_history = << >>
    /\ first_sent = << >>
    /\ send_error = FALSE
    /\ prev_at_get = [t \in Threads |-> NoImage]
    /\ wire_pixels = [t \in Threads |-> {}]
    /\ wire_packets = [t \in Threads |-> << >>]
    /\ frames_generated_total = 0
    /\ CpuConstructed

\* the steps of the two threads, and the client going away
ControlNext ==
    \/ ClientDisconnect
    \/ \E t \in Threads : GeneratorStart(t)
    \/ \E t \in Threads : GeneratorStartFatal(t)
    \/ \E t \in Threads : GeneratorLoop(t)
    \/ \E t \in Threads : GeneratorPut(t)
    \/ \E t \in Threads : GeneratorRenderError(t)
    \/ \E t \in Threads : GeneratorFatal(t)
    \/ \E t \in Threads : ConsumerStart(t)
    \/ \E t \in Threads : ConsumerLoop(t)
    \/ \E t \in Threads : ConsumerGetTimeout(t)
    \/ \E t \in Threads : ConsumerGet(t)
    \/ \E t \in Threads : ConsumerSendError(t)
    \/ \E t \in Threads : ConsumerFinish(t)
    \/ \E t \in Threads : ConsumerSend(t)

ControlSpec == ControlInit /\ [][ControlNext]_vars

----------------------------------------------------------------------------
(* Start of the program: process_configs, then a pipeline is built from  *)
(* each configuration it returns and its manager started                  *)

\* the value of image_source_mode in a configuration that has no such key
Absent == "absent"

\* key not in final_pipeline_conf, for the required keys that the model's
\* configuration has ('name' and 'esp32_port' are required as well)
MissingKey(c) ==
    \/ c.target_width = Unset
    \/ c.target_height = Unset
    \/ c.image_source_mode = Absent

\* the configurations of Configs, each also without its width, without
\* its source mode, and with a source mode the program does not know
StartupConfigs ==
    Configs
      \cup {[c EXCEPT !.target_width = Unset] : c \in Configs}
      \cup {[c EXCEPT !.image_source_mode = Absent] : c \in Configs}
      \cup {[c EXCEPT !.image_source_mode = "CPU"] : c \in Configs}

StartupInit ==
    /\ config \in StartupConfigs
    /\ lpc = "startup"
    /\ lfinal = FALSE
    /\ server_socket = "none"
    /\ stop_called = FALSE
    /\ client_connection = "none"
    /\ global_server_stop_event = FALSE
    /\ pipeline_internal_stop_event = FALSE
    /\ frames_queue = << >>
    /\ generator_thread = None
    /\ consumer_thread = None
    /\ generator_instance = "none"
    /\ stop_calls = 0
    /\ gpc = [t \in Threads |-> "none"]
    /\ cpc = [t \in Threads |-> "none"]
    /\ cframe = [t \in Threads |-> NoImage]
    /\ crects = [t \in Threads |-> << >>]
    /\ cchunks = [t \in Threads |-> << >>]
    /\ prev_processed_image = NoImage
    /\ current_dynamic_threshold = InitialThreshold(config)
    /\ frame_processing_times_history = << >>
    /\ first_sent = << >>
    /\ send_error = FALSE
    /\ prev_at_get = [t \in Threads |-> NoImage]
    /\ wire_pixels = [t \in Threads |-> {}]
    /\ wire_packets = [t \in Threads |-> << >>]
    /\ frames_generated_total = 0
    /\ CpuConstructed

\* process_configs raises ValueError for a missing required key: no
\* pipeline is built
ProcessConfigsReject ==
    /\ lpc = "startup"
    /\ MissingKey(config)
    /\ lpc' = "rejected"
    /\ UNCHANGED << config, cpu, metrics, source, lfinal, server_socket,
                    client_connection, generator_thread, consumer_thread,
                    events, frames_queue, gpc, cpc, clocals, cstate,
                    ghosts >>

\* process_configs returns the configuration; the pipeline is built from
\* it and start_pipeline_manager starts its manager thread
ProcessConfigs ==
    /\ lpc = "startup"
    /\ ~MissingKey(config)
    /\ lpc' = "bind"
    /\ UNCHANGED << config, cpu, metrics, source, lfinal, server_socket,
                    client_connection, generator_thread, consumer_thread,
                    events, frames_queue, gpc, cpc, clocals, cstate,
                    ghosts >>

StartupNext ==
    \/ ProcessConfigsReject
    \/ ProcessConfigs
    \/ Next

StartupSpec == StartupInit /\ [][StartupNext]_vars

----------------------------------------------------------------------------
(* CpuMonitorGenerator: the data thread and a caller of draw_frame       *)

\* deque.append on a deque with maxlen
DequeAppend(d, v) ==
    IF Len(d) >= HistoryLength THEN Append(Tail(d), v) ELSE Append(d, v)

\* psutil.cpu_percent(percpu=True) returns one value per core.  The k-th
\* sample is modelled as the value k for every core.
DataSample ==
    /\ dpc = "loop"
    /\ current_usage < MaxTicks
    /\ current_usage' = current_usage + 1
    /\ dpc' = "acquire"
    /\ UNCHANGED << cpu_usage_history, cpu_lock, di, fpc,
                    current_history_copy >>

\* psutil raises or returns a list of another length: the sample is
\* dropped and the thread waits for the next interval
DataSampleBad ==
    /\ dpc = "loop"
    /\ current_usage < MaxTicks
    /\ current_usage' = current_usage + 1
    /\ UNCHANGED << cpu_usage_history, cpu_lock, dpc, di, fpc,
                    current_history_copy >>

\* with self._lock: entered by the data thread
DataAcquire ==
    /\ dpc = "acquire"
    /\ cpu_lock = "free"
    /\ cpu_lock' = "data"
    /\ di' = 1
    /\ dpc' = "append"
    /\ UNCHANGED << cpu_usage_history, current_usage, fpc,
                    current_history_copy >>

\* self._cpu_usage_history[i].append(current_usage[i]); after the last
\* core the lock is released and the thread waits for the next interval
DataAppend ==
    /\ dpc = "append"
    /\ cpu_usage_history' =
           [cpu_usage_history EXCEPT ![di] = DequeAppend(@, current_usage)]
    /\ IF di = NumCores
       THEN /\ cpu_lock' = "free"
            /\ dpc' = "loop"
            /\ di' = 0
       ELSE /\ di' = di + 1
            /\ UNCHANGED << cpu_lock, dpc >>
    /\ UNCHANGED << current_usage, fpc, current_history_copy >>

\* a draw_frame that starts to copy the histories without the lock
DrawAcquire_NoLock ==
    /\ fpc = "idle"
    /\ current_history_copy' = << >>
    /\ fpc' = "copy"
    /\ UNCHANGED << cpu_usage_history, cpu_lock, dpc, current_usage, di >>

\* draw_frame: with self._lock entered
DrawAcquire ==
    /\ fpc = "idle"
    /\ cpu_lock = "free"
    /\ cpu_lock' = "draw"
    /\ current_history_copy' = << >>
    /\ fpc' = "copy"
    /\ UNCHANGED << cpu_usage_history, dpc, current_usage, di >>

\* [list(core_deque) for core_deque in self._cpu_usage_history], one core
\* at a time; after the last core the lock is released
DrawCopy ==
    /\ fpc = "copy"
    /\ current_history_copy' =
           Append(current_history_copy,
                  cpu_usage_history[Len(current_history_copy) + 1])
    /\ IF Len(current_history_copy) + 1 = NumCores
       THEN cpu_lock' = "free" /\ fpc' = "draw"
       ELSE UNCHANGED << cpu_lock, fpc >>
    /\ UNCHANGED << cpu_usage_history, dpc, current_usage, di >>

\* the rest of draw_frame draws the copy and returns
DrawFinish ==
    /\ fpc = "draw"
    /\ fpc' = "idle"
    /\ UNCHANGED << cpu_usage_history, cpu_lock, dpc, current_usage, di,
                    current_history_copy >>

\* the pipeline that owns the generator is left as constructed
CpuNext ==
    /\ \/ DataSample
       \/ DataSampleBad
       \/ DataAcquire
       \/ DataAppend
       \/ DrawAcquire
       \/ DrawCopy
       \/ DrawFinish
    /\ UNCHANGED << config, lvars, events, frames_queue, gpc, cpc, clocals,
                    cstate, ghosts, source, metrics >>

CpuSpec == Init /\ [][CpuNext]_vars

----------------------------------------------------------------------------
(* Claims *)

\* C1: the first chunk written to the socket of an accepted client is the
\* first chunk of the full frame (0, 0, W, H); no chunk of a partial
\* update precedes it, whatever the frames of an earlier session were.
C1_FirstRectIsFullFrame ==
    first_sent # << >> =>
        /\ first_sent[1].rect = FullRect
        /\ first_sent[1].chunk = Head(RectChunks(FullRect))

\* a later session (its generator runs beside one left over from the
\* session before, which ended on a socket error) has sent its first chunk
C1_Witness ==
    /\ first_sent # << >>
    /\ generator_thread = 2
    /\ GeneratorAlive(1)

\* C2 as stated: when a chunk send of a frame fails with a socket error,
\* the previous image after the failure is handled is the one that was the
\* previous image when the frame was taken from the queue.
C2_FailedFrameKeepsPrevious ==
    [][\A t \in Threads :
          SendErrorStep(t) => prev_processed_image' = prev_at_get[t]]_vars

\* C2: when a chunk send of a frame fails with a socket error, handling the
\* failure leaves the previous image as it is: the failed frame is not
\* promoted, and the previous image is the one of before the frame or, when
\* a teardown ran while the frame was being sent, empty.
C2_FailedFrameNotPromoted ==
    [][\A t \in Threads :
          SendErrorStep(t) =>
              /\ prev_processed_image' = prev_processed_image
              /\ prev_processed_image' \in {prev_at_get[t], NoImage}]_vars

\* a send failed after a frame had completed, and the completed frame is
\* still the previous image
C2_Witness ==
    /\ send_error
    /\ prev_processed_image # NoImage
    /\ \A t \in Threads : ~ConsumerAlive(t)

\* C3: when a frame completes (all of its chunks sent without a socket
\* error), the previous image is the resized image of exactly that frame.
C3_CompletedFrameIsPrevious ==
    [][\A t \in Threads :
          FinishStep(t) => prev_processed_image' = cframe[t]]_vars

\* frames have completed, the last of them one that had to be resized: the
\* previous image is its resized image, not the frame as delivered
C3_Witness ==
    /\ prev_processed_image = Resize(ImgA)
    /\ prev_processed_image # ImgA
    /\ Len(frame_processing_times_history) = 2
    /\ \E t \in Threads : cpc[t] = "loop"

\* C4: the previous image only ever becomes a frame all of whose dirty
\* rects were completely written to the socket; otherwise it is empty or
\* stays what it was.  (A frame in which the detector finds no change has
\* no dirty rect and is promoted with nothing sent.)
C4_PreviousWasTransmitted ==
    [][prev_processed_image' # prev_processed_image
         => \/ prev_processed_image' = NoImage
            \/ \E t \in Threads :
                  /\ cpc[t] = "send"
                  /\ prev_processed_image' = cframe[t]
                  /\ \A i \in 1..Len(crects[t]) :
                        RectPixels(crects[t][i]) \subseteq wire_pixels[t]]_vars

\* every chunk of a full frame is on the wire and the frame is about to be
\* promoted
C4_Witness ==
    \E t \in Threads :
        /\ cpc[t] = "send"
        /\ cchunks[t] = << >>
        /\ crects[t] = << FullRect >>
        /\ wire_pixels[t] = RectPixels(FullRect)
        /\ client_connection = "open"

\* C5: once a send to a client has failed with a socket error, no further
\* chunk is written to that client's connection, and the session is torn
\* down: the connection is closed, the consumer has ended, and the manager
\* is back in its accept loop (or has terminated, when the process is
\* shutting down).
C5_SessionTornDown ==
    /\ client_connection = "none"
    /\ \A t \in Threads : ~ConsumerAlive(t)
    /\ lpc \in {"loop", "accept", "terminated"}

C5_SocketErrorEndsSession ==
    /\ [][\A t \in Threads : SendStep(t) => ~send_error]_vars
    /\ (send_error ~> C5_SessionTornDown)

\* after a socket error the manager waits in accept for the next client
C5_Witness ==
    /\ send_error
    /\ client_connection = "none"
    /\ lpc = "accept"
    /\ ~global_server_stop_event

\* C6: whenever the connected client has disconnected, the session is
\* eventually torn down: the client socket is closed by the manager.
C6_DisconnectEndsSession ==
    (client_connection = "gone") ~> (client_connection = "none")

\* C7: when a new client is accepted the session before is fully torn
\* down: no client connection is held, the previous image is empty and the
\* frame queue is empty.
C7_AcceptAfterTeardown ==
    [][AcceptStep => /\ client_connection = "none"
                     /\ prev_processed_image = NoImage
                     /\ frames_queue = << >>]_vars

\* C8: at most one generator thread and at most one consumer thread are
\* alive at any time.
C8_OneProducerOneConsumer ==
    /\ Cardinality({t \in Threads : GeneratorAlive(t)}) <= 1
    /\ Cardinality({t \in Threads : ConsumerAlive(t)}) <= 1

\* C9: the frame queue never holds more than Q_MAX frames.
C9_QueueDepthBounded ==
    Len(frames_queue) <= QMax

\* a generator holds a rendered frame while the queue is full
C9_Witness ==
    /\ Len(frames_queue) = QMax
    /\ \E t \in Threads : gpc[t] = "render"

\* C10: the dynamic threshold lies between the minimum and the maximum
\* threshold of the pipeline.
C10_ThresholdInRange ==
    /\ MinThresh(config) <= current_dynamic_threshold
    /\ current_dynamic_threshold <= MaxThresh(config)

----------------------------------------------------------------------------
(* Claims on the adaptive controller *)

\* fps = 1 / mean(history) compared with target_fps minus and plus the band
\* target_fps * h, for a history of milliseconds: fps = 1000 * len / sum
FpsUnderBand(h) ==
    1000 * Len(h) * 100 < TargetFps * (100 - HysteresisPct) * SumSeq(h)
FpsOverBand(h) ==
    1000 * Len(h) * 100 > TargetFps * (100 + HysteresisPct) * SumSeq(h)

\* C11: when a frame completes and the history (the frame's time included)
\* is full: if fps < target_fps - band then T becomes min(Tmax, T + up),
\* and if fps > target_fps + band then T becomes max(Tmin, T - down).
C11_ControllerSteps ==
    [][\A t \in Threads :
          FinishStep(t) =>
              LET h == frame_processing_times_history'
                  T == current_dynamic_threshold
              IN Len(h) >= HistorySize =>
                    /\ FpsUnderBand(h) =>
                          current_dynamic_threshold' =
                              Min({MaxThresh(config), T + StepUp})
                    /\ FpsOverBand(h) =>
                          current_dynamic_threshold' =
                              Max({MinThresh(config), T - StepDown})]_vars

\* two slow frames have completed with the threshold already at a maximum
\* of 15: the step up was cut off at the maximum
C11_Witness ==
    /\ config.max_dirty_rect_threshold = 15
    /\ current_dynamic_threshold = 15
    /\ frame_processing_times_history = <<150, 150>>
    /\ prev_processed_image # NoImage
    /\ first_sent # << >>
    /\ \E t \in Threads : cpc[t] = "get"

C13_SessionStartsAtMinimum ==
    [][\A t \in Threads :
          StartStep(t) =>
              /\ current_dynamic_threshold' = MinThresh(config)
              /\ frame_processing_times_history' = << >>]_vars

----------------------------------------------------------------------------
(* Claims on the detector, the chunker and the packets *)

\* consumer thread t has run the detector on a frame and not yet finished
\* the frame: crects[t] is what the detector yielded for cframe[t] against
\* prev_at_get[t]
Detected(t) == cpc[t] = "send"

SameSize(a, b) ==
    /\ a # NoImage
    /\ b # NoImage
    /\ ImgWidth(a) = ImgWidth(b)
    /\ ImgHeight(a) = ImgHeight(b)

\* |rc - rp| + |gc - gp| + |bc - bp| of the pixel at (x, y)
PixelDistance(a, b, x, y) ==
    LET p == a[y + 1][x + 1]
        q == b[y + 1][x + 1]
        d(i) == IF p[i] >= q[i] THEN p[i] - q[i] ELSE q[i] - p[i]
    IN d(1) + d(2) + d(3)

\* the pixels of b that differ from a by more than T
Differing(a, b, T) ==
    { xy \in (0..(ImgWidth(b) - 1)) \X (0..(ImgHeight(b) - 1)) :
         PixelDistance(a, b, xy[1], xy[2]) > T }

\* C14: every rect (x, y, w, h) the detector yields for a W x H image has
\* w > 0, h > 0, 0 <= x, 0 <= y, x + w <= W and y + h <= H.
C14_RectsInsideImage ==
    \A t \in Threads :
        Detected(t) =>
            \A i \in 1..Len(crects[t]) :
                LET r == crects[t][i]
                IN /\ r[3] > 0
                   /\ r[4] > 0
                   /\ r[1] >= 0
                   /\ r[2] >= 0
                   /\ r[1] + r[3] <= ImgWidth(cframe[t])
                   /\ r[2] + r[4] <= ImgHeight(cframe[t])

\* the detector has yielded the right-hand column of the image
C14_Witness ==
    /\ Detected(1)
    /\ prev_at_get[1] # NoImage
    /\ crects[1] = << <<1, 0, 1, 2>> >>

\* C15: for a previous and a current image of equal size and threshold T,
\* the detector yields no rect when no pixel differs by more than T, and
\* otherwise exactly one rect, the bounding box (min_x, min_y,
\* max_x - min_x + 1, max_y - min_y + 1) of the pixels that do.
C15_OneBoundingBox ==
    \A t \in Threads :
        (Detected(t) /\ SameSize(prev_at_get[t], cframe[t])) =>
            LET changed == Differing(prev_at_get[t], cframe[t],
                                     current_dynamic_threshold)
                xs == {xy[1] : xy \in changed}
                ys == {xy[2] : xy \in changed}
            IN /\ Len(crects[t]) <= 1
               /\ changed = {} => crects[t] = << >>
               /\ changed # {} =>
                     crects[t] = << << Min(xs), Min(ys),
                                       Max(xs) - Min(xs) + 1,
                                       Max(ys) - Min(ys) + 1 >> >>

\* two pixels on a diagonal changed, one of them by exactly T + 1 and a
\* third by exactly T: the box is the whole image and holds pixels that
\* did not change
C15_Witness ==
    /\ Detected(1)
    /\ SameSize(prev_at_get[1], cframe[1])
    /\ current_dynamic_threshold = 4
    /\ Differing(prev_at_get[1], cframe[1], 4) = {<<0, 0>>, <<1, 1>>}
    /\ PixelDistance(prev_at_get[1], cframe[1], 0, 0) = 5
    /\ PixelDistance(prev_at_get[1], cframe[1], 1, 0) = 4
    /\ crects[1] = << <<0, 0, 2, 2>> >>

\* C16: the detector run on a frame equal to the previous image yields no
\* rect, for every threshold T >= 0.
C16_SameImageNoRect ==
    \A t \in Threads :
        (Detected(t) /\ prev_at_get[t] = cframe[t]) => crects[t] = << >>

\* a frame that is not of one colour was compared with itself at T = 0
C16_Witness ==
    /\ Detected(1)
    /\ prev_at_get[1] = cframe[1]
    /\ current_dynamic_threshold = 0
    /\ cframe[1][1][1] # cframe[1][2][2]
    /\ crects[1] = << >>

\* C17: with no previous image, or one of another size than the frame, the
\* detector yields exactly the rect (0, 0, W, H) of the frame, whatever the
\* threshold and the pixels.
C17_FullFrameRect ==
    \A t \in Threads :
        (Detected(t) /\ ~SameSize(prev_at_get[t], cframe[t])) =>
            crects[t] = << << 0, 0, ImgWidth(cframe[t]),
                              ImgHeight(cframe[t]) >> >>

\* the previous image was one pixel wide and two high, the threshold the
\* largest
C17_Witness ==
    /\ Detected(1)
    /\ prev_at_get[1] = SolidImage(1, 2, <<4, 3, 2>>)
    /\ current_dynamic_threshold = 9
    /\ crects[1] = << FullRect >>

\* C18: when the frame differs from a previous image of its size at
\* exactly one pixel (x, y), by more than T, the consumer's one rect is
\* (x, y, 1, 1) and it sends exactly one packet, of 14 bytes.
C18_SinglePixelPacket ==
    \A t \in Threads :
        (/\ Detected(t)
         /\ cchunks[t] = << >>
         /\ SameSize(prev_at_get[t], cframe[t])) =>
            LET differ == Differing(prev_at_get[t], cframe[t], 0)
                changed == Differing(prev_at_get[t], cframe[t],
                                     current_dynamic_threshold)
            IN (Cardinality(differ) = 1 /\ changed = differ) =>
                  \E xy \in differ :
                     /\ crects[t] = << <<xy[1], xy[2], 1, 1>> >>
                     /\ Len(wire_packets[t]) = 1
                     /\ wire_packets[t][1].packet.x = xy[1]
                     /\ wire_packets[t][1].packet.y = xy[2]
                     /\ wire_packets[t][1].packet.w = 1
                     /\ wire_packets[t][1].packet.h = 1
                     /\ wire_packets[t][1].packet.size = 14

\* the pixel (1, 0) alone changed and its packet is on the wire
C18_Witness ==
    /\ Detected(1)
    /\ cchunks[1] = << >>
    /\ SameSize(prev_at_get[1], cframe[1])
    /\ Differing(prev_at_get[1], cframe[1], 0) = {<<1, 0>>}
    /\ Len(wire_packets[1]) = 1
    /\ wire_packets[1][1].packet.size = 14

\* C19: a frame that completes has sent no packet exactly when the
\* detector yielded no rect for it, and it is then promoted to the
\* previous image all the same; a frame that fails had a rect to send.
C19_NoRectNoPacket ==
    [][\A t \in Threads :
          /\ FinishStep(t) =>
                /\ (wire_packets[t] = << >>) <=> (crects[t] = << >>)
                /\ prev_processed_image' = cframe[t]
          /\ SendErrorStep(t) => crects[t] # << >>]_vars

\* the first frame of the session was sent; a second, identical frame has
\* been taken from the queue and has nothing to send
C19_Witness ==
    /\ first_sent # << >>
    /\ \E t \in Threads :
          /\ Detected(t)
          /\ crects[t] = << >>
          /\ cframe[t] = prev_processed_image
          /\ wire_packets[t] = << >>
    /\ Len(frame_processing_times_history) = 1

\* C20: every packet sent carries data_len = w * h * 2 and lies inside the
\* dirty rect it was cut from: the same x and width, its rows within the
\* rows of the rect.
C20_ChunkInsideRect ==
    \A t \in Threads :
        \A i \in 1..Len(wire_packets[t]) :
            LET r == wire_packets[t][i].rect
                k == wire_packets[t][i].packet
            IN /\ k.data_len = k.w * k.h * 2
               /\ k.x = r[1]
               /\ k.w = r[3]
               /\ k.y >= r[2]
               /\ k.y + k.h <= r[2] + r[4]

\* both bands of a rect too large for one packet are on the wire
C20_Witness ==
    /\ Len(wire_packets[1]) = 2
    /\ wire_packets[1][1].rect = FullRect
    /\ wire_packets[1][2].packet.y = 1
    /\ prev_at_get[1] # NoImage

----------------------------------------------------------------------------
(* Claims on chunking *)

\* consumer thread t has sent every chunk of its frame and not yet
\* finished the frame
AllSent(t) == Detected(t) /\ cchunks[t] = << >>

\* max_chunk_data of the consumer
Limit == config.max_chunk_data_size

\* the (x, y, w, h) of the packets on the wire that were cut from rect r
PacketsOf(t, r) ==
    LET idx == {i \in 1..Len(wire_packets[t]) : wire_packets[t][i].rect = r}
        RECURSIVE Pick(_)
        Pick(i) ==
            IF i > Len(wire_packets[t]) THEN << >>
            ELSE (IF i \in idx
                  THEN << << wire_packets[t][i].packet.x,
                             wire_packets[t][i].packet.y,
                             wire_packets[t][i].packet.w,
                             wire_packets[t][i].packet.h >> >>
                  ELSE << >>) \o Pick(i + 1)
    IN Pick(1)

\* C21: a dirty rect whose packed size w * h * 2 is at most the chunk
\* limit, in particular equal to it, is sent as exactly one chunk that
\* carries the rect's own (x, y, w, h).
C21_SmallRectOneChunk ==
    \A t \in Threads :
        AllSent(t) =>
            \A i \in 1..Len(crects[t]) :
                LET r == crects[t][i]
                IN r[3] * r[4] * 2 <= Limit => PacketsOf(t, r) = << r >>

\* a rect of 2 x 2 pixels went out whole under a limit of exactly 8 bytes
C21_Witness ==
    /\ AllSent(1)
    /\ Limit = 8
    /\ crects[1] = << <<1, 1, 2, 2>> >>
    /\ Len(wire_packets[1]) = 1
    /\ wire_packets[1][1].packet.data_len = 8

\* C22: every dirty rect whose packed size w * h * 2 exceeds the chunk
\* limit is sent as at least two chunks, and the payload of every chunk
\* sent is at most the chunk limit.
C22_LargeRectSplit ==
    \A t \in Threads :
        /\ AllSent(t) =>
              \A i \in 1..Len(crects[t]) :
                  LET r == crects[t][i]
                  IN r[3] * r[4] * 2 > Limit => Len(PacketsOf(t, r)) >= 2
        /\ \A i \in 1..Len(wire_packets[t]) :
              wire_packets[t][i].packet.data_len <= Limit

\* C23: a chunked rect (x, y, w, h) is sent as horizontal bands of height
\* bh = max(1, floor(limit / (w * 2))): every band has the rect's x and w,
\* the first band starts at the rect's y and each next one where the one
\* before ended, all bands but the last have height bh, the last at most
\* bh, and the heights sum to h.
C23_BandsTopToBottom ==
    \A t \in Threads :
        AllSent(t) =>
            \A i \in 1..Len(crects[t]) :
                LET r == crects[t][i]
                    q == Limit \div (r[3] * 2)
                    bh == IF q >= 1 THEN q ELSE 1
                    ps == PacketsOf(t, r)
                    n == Len(ps)
                IN r[3] * r[4] * 2 > Limit =>
                      /\ n >= 1
                      /\ \A k \in 1..n : ps[k][1] = r[1] /\ ps[k][3] = r[3]
                      /\ ps[1][2] = r[2]
                      /\ \A k \in 1..(n - 1) :
                            /\ ps[k][4] = bh
                            /\ ps[k + 1][2] = ps[k][2] + ps[k][4]
                      /\ ps[n][4] >= 1
                      /\ ps[n][4] <= bh
                      /\ ps[n][2] + ps[n][4] = r[2] + r[4]

\* limit 16 and the rect of 4 x 3 pixels: two bands, of height 2 then 1
C23_Witness ==
    /\ AllSent(1)
    /\ Limit = 16
    /\ crects[1] = << <<0, 0, 4, 3>> >>
    /\ PacketsOf(1, <<0, 0, 4, 3>>) = << <<0, 0, 4, 2>>, <<0, 2, 4, 1>> >>

\* C24: when a single row of a dirty rect exceeds the chunk limit
\* (w * 2 > limit) the rect is skipped: no chunk of it is sent.
C24_WideRectSkipped ==
    \A t \in Threads :
        \A i \in 1..Len(wire_packets[t]) :
            wire_packets[t][i].rect[3] * 2 <= Limit

----------------------------------------------------------------------------
(* Claims on the order of packets *)

\* a consumer thread takes a frame from the queue
GetStep(t) == cpc[t] = "get" /\ cpc'[t] = "send"

\* thread t has put a part of its frame on the wire and has more to send
PartlySent(t) ==
    /\ cpc[t] = "send"
    /\ wire_packets[t] # << >>
    /\ cchunks[t] # << >>

\* C25: packets reach the client socket in the order produced: a frame
\* enters the queue at the back and the consumer takes the frame at the
\* front; the chunks of one frame go out in band order, top to bottom; and
\* no packet of another frame is sent between the packets of a frame.
C25_PacketsInOrder ==
    [][/\ \/ frames_queue' = frames_queue
          \/ frames_queue' = << >>
          \/ \E img \in SourceImages :
                frames_queue' = Append(frames_queue, img)
          \/ /\ frames_queue # << >>
             /\ frames_queue' = Tail(frames_queue)
             /\ \E t \in Threads :
                   GetStep(t) /\ cframe'[t] = Resize(Head(frames_queue))
       /\ \A t \in Threads :
             \A i \in 1..(Len(wire_packets'[t]) - 1) :
                LET a == wire_packets'[t][i]
                    b == wire_packets'[t][i + 1]
                IN a.rect = b.rect /\ b.packet.y = a.packet.y + a.packet.h
       /\ \A t \in Threads :
             SendStep(t) =>
                \A u \in Threads \ {t} : ~PartlySent(u)]_vars

\* both bands of a frame are on the wire while two different frames wait
\* in the queue
C25_Witness ==
    /\ frames_queue = <<ImgB, ImgA>>
    /\ \E t \in Threads :
          /\ AllSent(t)
          /\ Len(wire_packets[t]) = 2
          /\ wire_packets[t][1].packet.y = 0
          /\ wire_packets[t][2].packet.y = 1

----------------------------------------------------------------------------
(* Claims on the bytes of a packet *)

\* the big-endian number in the bytes i..j of b
RECURSIVE BigEndian(_, _, _)
BigEndian(b, i, j) ==
    IF i > j THEN 0 ELSE BigEndian(b, i, j - 1) * 256 + b[j]

RedFrame == SolidImage(4, 2, <<255, 0, 0>>)

\* C26: every packet is a 12-byte header of x, y, w, h (u16 big-endian)
\* and data_len (u32 big-endian) followed by exactly data_len = w * h * 2
\* payload bytes, 12 + w * h * 2 bytes in all; and the first frame of a
\* session with target 4 x 2, solid (255, 0, 0), gamma 1.0 and wb_scale
\* (1, 1, 1), is sent as exactly one packet: header 00 00 00 00 00 04 00 02
\* 00 00 00 10 and eight times F8 00.
C26_PacketLayout ==
    \A t \in Threads :
        /\ \A i \in 1..Len(wire_packets[t]) :
              LET r == wire_packets[t][i].rect
                  b == wire_packets[t][i].packet.bytes
              IN /\ Len(b) = 12 + r[3] * r[4] * 2
                 /\ \A j \in 1..Len(b) : b[j] \in 0..255
                 /\ BigEndian(b, 1, 2) = r[1]
                 /\ BigEndian(b, 3, 4) = r[2]
                 /\ BigEndian(b, 5, 6) = r[3]
                 /\ BigEndian(b, 7, 8) = r[4]
                 /\ BigEndian(b, 9, 12) = r[3] * r[4] * 2
        /\ (AllSent(t) /\ prev_at_get[t] = NoImage /\ cframe[t] = RedFrame)
              => /\ Len(wire_packets[t]) = 1
                 /\ wire_packets[t][1].packet.bytes =
                        <<0, 0, 0, 0, 0, 4, 0, 2, 0, 0, 0, 16>>
                        \o [j \in 1..16 |-> IF j % 2 = 1 THEN 248 ELSE 0]

\* the red frame went out as the first frame of the session
C26_Witness ==
    /\ AllSent(1)
    /\ prev_at_get[1] = NoImage
    /\ cframe[1] = RedFrame
    /\ Len(wire_packets[1]) = 1
    /\ wire_packets[1][1].packet.size = 28

\* The pixel at offset p (0-based, row-major) of a payload, decoded to 24
\* bits by repeating the high bits of each field in its low bits
Decode565(data, p) ==
    LET val == data[2 * p + 1] * 256 + data[2 * p + 2]
        r5 == val \div 2048
        g6 == (val \div 32) % 64
        b5 == val % 32
    IN << r5 * 8 + r5 \div 4, g6 * 4 + g6 \div 16, b5 * 8 + b5 \div 4 >>

\* the payload of a packet: its bytes after the header
Payload(k) == SubSeq(k.bytes, 13, Len(k.bytes))

\* every pixel of every packet of thread t, decoded, is within dr of the
\* frame's pixel in red, dg in green and db in blue
WithinTolerance(t, dr, dg, db) ==
    \A i \in 1..Len(wire_packets[t]) :
        LET k == wire_packets[t][i].packet
        IN \A p \in 0..(k.w * k.h - 1) :
              LET orig == PixelAt(cframe[t], k.x + (p % k.w),
                                  k.y + (p \div k.w))
                  back == Decode565(Payload(k), p)
              IN /\ Abs(back[1] - orig[1]) <= dr
                 /\ Abs(back[2] - orig[2]) <= dg
                 /\ Abs(back[3] - orig[3]) <= db

\* C27 as stated: every pixel encoded to RGB565 and decoded back by bit
\* replication differs from the original by at most 8 in R and B and at
\* most 4 in G.
C27_RoundTripTolerance ==
    \A t \in Threads : Detected(t) => WithinTolerance(t, 8, 4, 8)

\* C27 as amended: a single pixel comes back within 11 in R and B and 5
\* in G; a pixel of an image, which also takes the quantisation error of
\* its neighbours, within 15 in R and B and 7 in G.
C27_RoundTripWithDithering ==
    \A t \in Threads :
        Detected(t) =>
            /\ WithinTolerance(t, 15, 7, 15)
            /\ ImgWidth(cframe[t]) * ImgHeight(cframe[t]) = 1
                  => WithinTolerance(t, 11, 5, 11)

\* the single pixel (236, 236, 19) came back as (247, 239, 16)
C27_Witness ==
    /\ AllSent(1)
    /\ cframe[1] = SolidImage(1, 1, <<236, 236, 19>>)
    /\ Len(wire_packets[1]) = 1
    /\ Decode565(Payload(wire_packets[1][1].packet), 0) = <<247, 239, 16>>

----------------------------------------------------------------------------
(* Claims on shutdown and teardown *)

\* the manager has left _listening_loop with the session torn down and the
\* listening socket closed
Terminated ==
    /\ lpc = "terminated"
    /\ server_socket = "closed"
    /\ client_connection = "none"
    /\ generator_thread = None
    /\ consumer_thread = None

\* C28: once the global stop event is set, whether the manager is idle in
\* accept or a session is active, the manager eventually tears down the
\* session, closes the listening socket and terminates; it accepts no
\* client after it has seen the event, and stays terminated.
C28_ShutdownTerminates ==
    /\ [][/\ (lpc = "loop" /\ global_server_stop_event) => lpc' # "accept"
          /\ lfinal => ~AcceptStep
          /\ lpc = "terminated" => lpc' = "terminated"]_vars
    /\ [](lpc = "terminated" => Terminated)
    /\ (global_server_stop_event ~> Terminated)

\* the stop came during a session in which a chunk had been sent, and the
\* manager has terminated
C28_Witness ==
    /\ Terminated
    /\ global_server_stop_event
    /\ lfinal
    /\ first_sent # << >>
    /\ ~send_error


\* the manager is inside _cleanup_active_session
InCleanup ==
    lpc \in {"join_gen", "join_con", "close", "stop_source", "drain"}

SourceHasStop == HasStop(GeneratorClass(config.image_source_mode))

\* C30: the stop() of an image source that has one is called exactly once
\* per session teardown: the teardown of a session calls it once, on an
\* instance not stopped before; the cleanup after the loop and the
\* initialisation for the next client do not call it again.
C30_SourceStoppedOnce ==
    /\ [](stop_calls <= 1)
    /\ [](generator_instance # "none" => stop_calls = 0)
    /\ [][/\ (lpc = "stop_source" /\ lpc' # lpc /\ ~lfinal /\ SourceHasStop)
               => stop_calls = 0 /\ stop_calls' = 1
          /\ (lpc = "stop_source" /\ lpc' # lpc /\ lfinal)
               => stop_calls' = stop_calls
          /\ (lpc = "accept" /\ lpc' # lpc)
               => StopPreviousInstance = stop_calls
          /\ stop_calls' # stop_calls
               => \/ lpc = "stop_source"
                  \/ lpc = "accept" /\ stop_calls' = 0]_vars

\* the manager has terminated after a session with a source that has a
\* stop method: the newest instance was stopped once
C30_Witness ==
    /\ lpc = "terminated" /\ lfinal
    /\ SourceHasStop /\ stop_calls = 1 /\ generator_instance = "none"
    /\ first_sent # << >>


\* 255 * clip(c / 255 * scale, 0, 1) rounded to the nearest integer, halves
\* upwards
NearestCorrected(c, scale) ==
    IF (2 * c * scale + 100) \div 200 > 255 THEN 255
    ELSE (2 * c * scale + 100) \div 200

\* C37: with gamma 1 the colour correction maps a channel value c under the
\* white-balance factor s to 255 * clip(c / 255 * s, 0, 1) rounded to the
\* nearest integer: the identity for s = 1, and 255 becomes 128 for
\* s = 1/2.  Stated of every channel of a frame whose packet was sent.
C37_ColourCorrectionRounds ==
    \A k \in 1..Len(wire_packets[1]) : \A i \in 1..3 :
       ApplyGammaAndWhiteBalance(cframe[1][1][1][i], config.wb_scale[i])
          = NearestCorrected(cframe[1][1][1][i], config.wb_scale[i])


\* C40: a frame of the CPU monitor is drawn from a consistent snapshot of
\* the per-core histories: the lists copied so far all end with the same
\* sample, never one core with a sample the others do not have yet.
C40_ConsistentSnapshot ==
    \A a, b \in 1..Len(current_history_copy) :
        current_history_copy[a] = current_history_copy[b]

\* a frame is drawn from a snapshot that holds two samples, while the data
\* thread waits for the lock with the next sample
C40_Witness ==
    /\ Len(current_history_copy) = NumCores
    /\ current_history_copy[1] = << 1, 2 >>
    /\ dpc = "acquire" /\ current_usage = 3


\* C34: a generator goes on to render only from a test of the loop in
\* which the queue held fewer than low_water_mark frames; a frame enters
\* the queue only from a generator that passed this test; and a test that
\* finds low_water_mark frames or more, with no stop event set, leaves the
\* generator at the head of its loop and the queue as it was.
C34_EnqueueBelowLowWaterMark ==
    [][/\ \A t \in Threads :
            (gpc[t] # "render" /\ gpc'[t] = "render")
               => (gpc[t] = "loop" /\ Len(frames_queue) < LowWaterMark)
       /\ Len(frames_queue') > Len(frames_queue)
            => \E t \in Threads : gpc[t] = "render" /\ gpc'[t] = "loop"
       /\ \A t \in Threads :
            (/\ gpc[t] = "loop"
             /\ Len(frames_queue) >= LowWaterMark
             /\ ~pipeline_internal_stop_event
             /\ ~global_server_stop_event)
               => (gpc'[t] = "loop" /\ Len(frames_queue') <= Len(frames_queue))
      ]_vars

\* a generator idles at the head of its loop: the queue holds
\* low_water_mark frames while the consumer is sending an earlier frame
C34_Witness ==
    /\ generator_thread # None
    /\ gpc[generator_thread] = "loop"
    /\ Len(frames_queue) = LowWaterMark
    /\ consumer_thread # None
    /\ cpc[consumer_thread] = "send"
    /\ ~pipeline_internal_stop_event
    /\ ~global_server_stop_event

C36_FullQueueDropsFrame ==
    [][\A t \in Threads :
          (/\ gpc[t] = "render"
           /\ Len(frames_queue) >= QMax
           /\ gpc'[t] = "loop")
             => UNCHANGED << frames_queue, frames_generated_total,
                             pipeline_internal_stop_event,
                             global_server_stop_event >>]_vars

\* a generator has rendered a frame for a queue that is full, before the
\* count of generated frames has reached the value where the model stops
\* counting
C36_Witness ==
    /\ \E t \in Threads : gpc[t] = "render"
    /\ Len(frames_queue) = QMax
    /\ frames_generated_total < MaxGenerated

\* C38: the queue never holds more than low_water_mark frames, and no
\* generator holds a rendered frame for a queue that is full (so no put
\* times out).  Stated for low_water_mark <= the capacity of the queue.
C38_QueueNeverFull ==
    LowWaterMark <= QMax =>
       /\ Len(frames_queue) <= LowWaterMark
       /\ \A t \in Threads : gpc[t] = "render" => Len(frames_queue) < QMax


\* C32: a manager whose bind fails ends at once with its listening socket
\* closed.  Before the bind there is no client and no generator or
\* consumer thread; the failing step changes nothing but the socket and
\* the position of the manager (the stop event shared with the other
\* pipelines included); and a manager that has ended stays ended, accepts
\* no client and starts no thread.
C32_BindFailureTerminates ==
    /\ [](lpc = "bind" =>
             /\ client_connection = "none"
             /\ \A t \in Threads : gpc[t] = "none" /\ cpc[t] = "none")
    /\ [][(lpc = "bind" /\ lpc' # "loop" /\ lpc' # lpc) =>
             /\ lpc' = "terminated"
             /\ server_socket' = "closed"
             /\ UNCHANGED << client_connection, generator_thread,
                             consumer_thread, gpc, cpc, frames_queue,
                             events >>]_vars
    /\ [][lpc = "terminated" =>
             /\ lpc' = "terminated"
             /\ UNCHANGED << server_socket, client_connection >>
             /\ \A t \in Threads :
                   /\ gpc'[t] # "none" => gpc[t] # "none"
                   /\ cpc'[t] # "none" => cpc[t] # "none"]_vars

\* the manager has ended with no shutdown requested: its bind failed
C32_Witness ==
    /\ lpc = "terminated"
    /\ server_socket = "closed"
    /\ ~global_server_stop_event
    /\ ~stop_called
    /\ \A t \in Threads : gpc[t] = "none" /\ cpc[t] = "none"


\* a configuration the specification calls invalid: a required field is
\* missing or the source mode is not one the program knows
ConfigInvalid ==
    MissingKey(config) \/ config.image_source_mode \notin SupportedModes

\* C33: a pipeline with an invalid configuration never listens on its
\* port, never waits in accept() and never has a client.
C33_InvalidConfigRejected ==
    ConfigInvalid =>
       /\ server_socket # "listening"
       /\ lpc # "accept"
       /\ client_connection = "none"


\* the stop event of a running session was set by a generator (nobody
\* called stop_pipeline_manager, and the manager is still waiting)
SourceFatal ==
    /\ lpc = "wait"
    /\ pipeline_internal_stop_event
    /\ ~stop_called

\* the session is torn down and the manager back at the head of its loop
SessionTornDown ==
    /\ lpc = "loop"
    /\ ~lfinal
    /\ client_connection = "none"
    /\ generator_thread = None
    /\ consumer_thread = None
    /\ frames_queue = << >> \/ \E t \in Threads : GeneratorAlive(t)

\* C31: a generator that meets a fatal failure of its source sets the stop
\* event of the session and ends; the consumer of the session then ends
\* at its next loop test, the manager tears the session down and comes
\* back to the head of its loop, from where, unless the server is being
\* shut down, it goes on to accept.
C31_SourceFatalEndsSession ==
    /\ [][/\ \A t \in Threads :
              (GeneratorFatal(t) \/ GeneratorStartFatal(t)) =>
                 /\ pipeline_internal_stop_event'
                 /\ gpc'[t] = "none"
                 /\ lpc' = lpc
          /\ \A t \in Threads :
              (cpc[t] = "loop" /\ pipeline_internal_stop_event
                 /\ cpc'[t] # cpc[t]) => cpc'[t] = "none"
          /\ (lpc = "loop" /\ ~global_server_stop_event /\ lpc' # lpc)
                 => lpc' = "accept"]_vars
    /\ (SourceFatal ~> (SessionTornDown \/ global_server_stop_event))

\* the capture handle could not be created at the start of the generator
\* thread: the stop event is set in a session that has sent nothing yet
C31_Witness ==
    /\ SourceFatal
    /\ generator_thread # None
    /\ gpc[generator_thread] = "none"
    /\ consumer_thread # None
    /\ ConsumerAlive(consumer_thread)
    /\ first_sent = << >>
    /\ ~global_server_stop_event


\* C39: if frames keep completing and from some point on no consumer
\* starts (the rest of the behaviour lies within one session) and every
\* completed frame leaves a history whose fps lies below the band, then
\* the threshold reaches the maximum and stays there; and if every one
\* leaves a history whose fps lies above the band, then the threshold
\* reaches the minimum and stays there.
C39_SustainedLoadConverges ==
    /\ ( /\ []<><<\E t \in Threads : FinishStep(t)>>_vars
         /\ <>[][\A t \in Threads :
                    /\ ~StartStep(t)
                    /\ FinishStep(t) =>
                          FpsBelowBand(frame_processing_times_history')]_vars )
         => <>[](current_dynamic_threshold = MaxThresh(config))
    /\ ( /\ []<><<\E t \in Threads : FinishStep(t)>>_vars
         /\ <>[][\A t \in Threads :
                    /\ ~StartStep(t)
                    /\ FinishStep(t) =>
                          FpsAboveBand(frame_processing_times_history')]_vars )
         => <>[](current_dynamic_threshold = MinThresh(config))

\* three slow frames have completed in the session of a pipeline whose
\* threshold started at 5: two steps up have brought it to the maximum 15
C39_Witness ==
    /\ InitialThreshold(config) = 5
    /\ MaxThresh(config) = 15
    /\ current_dynamic_threshold = 15
    /\ frame_processing_times_history = <<150, 150>>
    /\ cpc[1] = "loop"
    /\ lpc = "wait"

====
